---------------------------- MODULE Spec2Model ----------------------------
(***************************************************************************)
(* A model of terraform-provider-codeowners: the codeowners_file resource  *)
(* handlers (codeowners/resource_file.go), the vendored go-github-utils    *)
(* helpers they call (pkg/commit, pkg/branch, pkg/file) and the Ruleset    *)
(* model.                                                                  *)
(*                                                                         *)
(* Go strings are sequences of one-character strings, so that splitting,   *)
(* trimming, formatting and sorting are computed character by character.   *)
(* An optional value (a nil-able pointer) is <<>> or <<v>>.                *)
(* The commit message, the author identity and the wall clock never        *)
(* influence the control flow of the code and are left out.                *)
(***************************************************************************)
EXTENDS Integers, Sequences, FiniteSets, TLC

VARIABLES
    op,         \* the handler (or library call) being executed, "idle" if none
    pc,         \* the position inside the handler / CreateCommit / GetSHAForBranch
    d,          \* schema.ResourceData of the resource: id and attributes
    d0,         \* d as it was when the current handler was entered
    config,     \* providerConfiguration: gpgKey, gpgPassphrase
    options,    \* the CommitOptions of the running CreateCommit call
    cc,         \* the locals of the running CreateCommit call
    h,          \* the locals of the running resource handler
    calls,      \* the remote calls (and sleeps) issued by the current handler, in order
    remote,     \* the GitHub repository: branch tips, temporary refs, the pull request
    ret,        \* what the current handler returned: <<>> while running, <<err>> after
    nops,       \* number of handlers started so far
    cache,      \* diffResultCache: the stored (cacheKey, result) entries
    plan,       \* the diff calls between their Load and their Store, with their locals
    px,         \* input of the pure function under check
    py          \* its output

vars == <<op, pc, d, d0, config, options, cc, h, calls, remote, ret, nops,
          cache, plan, px, py>>

----------------------------------------------------------------------------
(* Bounds of the model.                                                    *)

MaxOps == 1          \* handlers run one after the other
MaxBudget == 2       \* largest MaxRetries a direct CreateCommit caller passes
MaxIdLen == 2        \* longest owner / name / branch of the identity round trip
MaxRules == 2        \* longest configured rule list given to expandRuleset
MaxEqRules == 2      \* longest Ruleset given to Equal
MaxDiffCalls == 2    \* calls of usernamesDiffSupressFunc begun in one run
MaxFileRules == 2    \* longest Ruleset given to Compile
MaxFileLines == 2    \* most lines of a text given to parseRulesFile
MaxMethodLen == 5    \* longest generated merge_method value

----------------------------------------------------------------------------
(* Strings.                                                                *)

None == <<>>
Some(x) == <<x>>

\* The characters in use, in increasing byte order.
CharOrder ==
    <<"\n", " ", "#", "*", ".", "/", "0", "1", ":", "@", "a", "b", "c", "d", "e", "f", "g",
      "h", "m", "o", "r", "s", "t", "u", "x">>

Code(c) == CHOOSE i \in 1..Len(CharOrder) : CharOrder[i] = c

RECURSIVE StrLess(_, _)
\* s < t as Go compares strings: bytewise, a proper prefix first.
StrLess(s, t) ==
    IF t = <<>> THEN FALSE
    ELSE IF s = <<>> THEN TRUE
    ELSE IF Head(s) = Head(t) THEN StrLess(Tail(s), Tail(t))
    ELSE Code(Head(s)) < Code(Head(t))

HasPrefix(s, p) == Len(s) >= Len(p) /\ SubSeq(s, 1, Len(p)) = p

TrimPrefix(s, p) == IF HasPrefix(s, p) THEN SubSeq(s, Len(p) + 1, Len(s)) ELSE s

\* strings.Index for a one-character separator: 0 when absent (Go: -1).
Index(s, c) ==
    IF \E i \in 1..Len(s) : s[i] = c
    THEN CHOOSE i \in 1..Len(s) : s[i] = c /\ \A j \in 1..(i - 1) : s[j] # c
    ELSE 0

\* strings.LastIndex for a one-character separator: 0 when absent (Go: -1).
LastIndex(s, c) ==
    IF \E i \in 1..Len(s) : s[i] = c
    THEN CHOOSE i \in 1..Len(s) : s[i] = c /\ \A j \in (i + 1)..Len(s) : s[j] # c
    ELSE 0

\* strings.SplitN(s, c, 2): one part when c is absent, else the text before
\* the first c and everything after it.
SplitN2(s, c) ==
    LET i == Index(s, c) IN
    IF i = 0 THEN <<s>> ELSE <<SubSeq(s, 1, i - 1), SubSeq(s, i + 1, Len(s))>>

RECURSIVE Insert(_, _)
Insert(x, sorted) ==
    IF sorted = <<>> THEN <<x>>
    ELSE IF StrLess(x, Head(sorted)) THEN <<x>> \o sorted
    ELSE <<Head(sorted)>> \o Insert(x, Tail(sorted))

RECURSIVE SortStrings(_)
\* sort.Strings: the elements in increasing order, duplicates kept.
SortStrings(list) ==
    IF list = <<>> THEN <<>> ELSE Insert(Head(list), SortStrings(Tail(list)))

\* schema.HashString: the CRC-32 (IEEE) checksum of the string as a
\* non-negative int.  The number exceeds 2^31: it is computed as its high and
\* its low 16 bits and given by its decimal digits, which is also its
\* strconv.Itoa.
HashString(s) ==
    LET ByteOrder ==
            <<10, 32, 35, 42, 46, 47, 48, 49, 58, 64, 97, 98, 99, 100, 101, 102, 103,
              104, 109, 111, 114, 115, 116, 117, 120>>
        RECURSIVE Xor(_, _)
        Xor(m, n) == IF m = 0 THEN n
                     ELSE IF n = 0 THEN m
                     ELSE ((m + n) % 2) + 2 * Xor(m \div 2, n \div 2)
        RECURSIVE Shift(_, _, _)
        \* n times: crc = crc >> 1, xor the polynomial 0xEDB88320 when a 1
        \* was shifted out.
        Shift(hi, lo, n) ==
            IF n = 0 THEN <<hi, lo>>
            ELSE LET hi1 == hi \div 2
                     lo1 == (lo \div 2) + (hi % 2) * 32768 IN
                 IF lo % 2 = 1 THEN Shift(Xor(hi1, 60856), Xor(lo1, 33568), n - 1)
                 ELSE Shift(hi1, lo1, n - 1)
        RECURSIVE Update(_, _)
        Update(crc, i) ==
            IF i > Len(s) THEN crc
            ELSE Update(Shift(crc[1], Xor(crc[2], ByteOrder[Code(s[i])]), 8), i + 1)
        RECURSIVE Digits(_, _)
        \* The decimal digits of hi * 2^16 + lo.
        Digits(hi, lo) ==
            LET rest == (hi % 10) * 65536 + lo IN
            IF hi \div 10 = 0 /\ rest \div 10 = 0 THEN <<rest % 10>>
            ELSE Digits(hi \div 10, rest \div 10) \o <<rest % 10>>
        crc == Update(<<65535, 65535>>, 1)
    IN Digits(Xor(crc[1], 65535), Xor(crc[2], 65535))

\* The hash codes of the user names that the configurations and the files of
\* this model hold, computed once.
HashCodes ==
    {<<s, HashString(s)>> : s \in {<<"a">>, <<"b">>, <<"@", "a">>, <<"@", "b">>}}

RECURSIVE SetList(_)
\* schema.Set.List() of a set of strings hashed by schema.HashString: the set
\* keeps each element under the key strconv.Itoa(hash code) and lists the
\* elements in the order of sort.Strings of the keys.
SetList(S) ==
    LET RECURSIVE KeyLess(_, _)
        KeyLess(k, l) ==
            IF l = <<>> THEN FALSE
            ELSE IF k = <<>> THEN TRUE
            ELSE IF Head(k) = Head(l) THEN KeyLess(Tail(k), Tail(l))
            ELSE Head(k) < Head(l)
        Key(y) ==
            LET known == {p \in HashCodes : p[1] = y} IN
            IF known = {} THEN HashString(y) ELSE (CHOOSE p \in known : TRUE)[2]
    IN IF S = {} THEN <<>>
       ELSE LET key == [y \in S |-> Key(y)]
                x == CHOOSE y \in S : \A z \in S \ {y} : KeyLess(key[y], key[z])
            IN <<x>> \o SetList(S \ {x})

Range(s) == {s[i] : i \in 1..Len(s)}

RECURSIVE Strs(_, _)
\* The strings over alphabet A of length at most n.
Strs(A, n) ==
    IF n = 0 THEN {<<>>}
    ELSE LET shorter == Strs(A, n - 1) IN
         shorter \cup {<<c>> \o s : c \in A, s \in {t \in shorter : Len(t) = n - 1}}

----------------------------------------------------------------------------
(* The Ruleset model: type Ruleset []Rule, Rule{Pattern, Usernames}.       *)

NormalizeRule(rule) ==
    [Pattern |-> rule.Pattern, Usernames |-> SortStrings(rule.Usernames)]

RemoveAt(s, j) == SubSeq(s, 1, j - 1) \o SubSeq(s, j + 1, Len(s))

RECURSIVE MatchRules(_, _)
\* Every rule of a is paired with a rule of b not paired yet that has the same
\* pattern and the same usernames once both are sorted; nothing of b is left.
MatchRules(a, b) ==
    IF a = <<>> THEN b = <<>>
    ELSE LET want == NormalizeRule(Head(a))
             hits == {j \in 1..Len(b) : NormalizeRule(b[j]) = want} IN
         IF hits = {} THEN FALSE
         ELSE MatchRules(Tail(a), RemoveAt(b, CHOOSE j \in hits : TRUE))

RECURSIVE MatchRulesInOrder(_, _)
\* The comparison with the usernames left in the order they were given.
MatchRulesInOrder(a, b) ==
    IF a = <<>> THEN b = <<>>
    ELSE LET hits == {j \in 1..Len(b) : b[j] = Head(a)} IN
         IF hits = {} THEN FALSE
         ELSE MatchRulesInOrder(Tail(a), RemoveAt(b, CHOOSE j \in hits : TRUE))

EqualOrderSensitive(a, b) == MatchRulesInOrder(a, b)

\* Ruleset.Equal: the (pattern, sorted usernames) pairs of both sides match
\* irrespective of order.  Works on sorted copies.
Equal(a, b) == MatchRules(a, b)

RECURSIVE CompileUsernames(_)
CompileUsernames(us) ==
    IF us = <<>> THEN <<>>
    ELSE <<" ", "@">> \o Head(us) \o CompileUsernames(Tail(us))

RECURSIVE CompileLines(_)
CompileLines(ruleset) ==
    IF ruleset = <<>> THEN <<>>
    ELSE Head(ruleset).Pattern \o CompileUsernames(Head(ruleset).Usernames)
         \o <<"\n">> \o CompileLines(Tail(ruleset))

\* The compiled text under a comment line.
CompileWithHeader(ruleset) == <<"#", " ", "x", "\n">> \o CompileLines(ruleset)

RECURSIVE Compile(_)
\* Ruleset.Compile: one line "<pattern> @u1 @u2 ...\n" per rule, in order.
Compile(ruleset) ==
    IF ruleset = <<>> THEN <<>>
    ELSE Head(ruleset).Pattern \o CompileUsernames(Head(ruleset).Usernames)
         \o <<"\n">> \o Compile(Tail(ruleset))

IsSpace(c) == c \in {" ", "\n"}

RECURSIVE SplitLines(_)
SplitLines(text) ==
    LET i == Index(text, "\n") IN
    IF i = 0 THEN <<text>>
    ELSE <<SubSeq(text, 1, i - 1)>> \o SplitLines(SubSeq(text, i + 1, Len(text)))

RECURSIVE TrimLeft(_)
TrimLeft(s) == IF s # <<>> /\ IsSpace(Head(s)) THEN TrimLeft(Tail(s)) ELSE s

RECURSIVE Fields(_)
\* strings.Fields: the maximal runs of non-space characters.
Fields(s) ==
    LET t == TrimLeft(s) IN
    IF t = <<>> THEN <<>>
    ELSE LET stop == IF \E i \in 1..Len(t) : IsSpace(t[i])
                     THEN CHOOSE i \in 1..Len(t) :
                              IsSpace(t[i]) /\ \A j \in 1..(i - 1) : ~IsSpace(t[j])
                     ELSE Len(t) + 1 IN
         <<SubSeq(t, 1, stop - 1)>> \o Fields(SubSeq(t, stop, Len(t)))

ParseLine(line) ==
    LET words == Fields(line) IN
    IF words = <<>> \/ Head(Head(words)) = "#" THEN <<>>
    ELSE <<[Pattern |-> Head(words),
            Usernames |-> [i \in 1..(Len(words) - 1) |-> TrimPrefix(words[i + 1], <<"@">>)]]>>

RECURSIVE ParseLines(_)
ParseLines(lines) ==
    IF lines = <<>> THEN <<>> ELSE ParseLine(Head(lines)) \o ParseLines(Tail(lines))

\* A line parsed with "#" looked for in its first column only.
ParseLineFirstColumn(line) ==
    LET words == Fields(line) IN
    IF words = <<>> \/ Head(line) = "#" THEN <<>>
    ELSE <<[Pattern |-> Head(words),
            Usernames |-> [i \in 1..(Len(words) - 1) |-> TrimPrefix(words[i + 1], <<"@">>)]]>>

RECURSIVE ParseLinesFirstColumn(_)
ParseLinesFirstColumn(lines) ==
    IF lines = <<>> THEN <<>>
    ELSE ParseLineFirstColumn(Head(lines)) \o ParseLinesFirstColumn(Tail(lines))

parseRulesFileFirstColumn(raw) == ParseLinesFirstColumn(SplitLines(raw))

\* A line parsed with the "@" of its usernames kept.
ParseLineKeepAt(line) ==
    LET words == Fields(line) IN
    IF words = <<>> \/ Head(Head(words)) = "#" THEN <<>>
    ELSE <<[Pattern |-> Head(words),
            Usernames |-> [i \in 1..(Len(words) - 1) |-> words[i + 1]]]>>

RECURSIVE ParseLinesKeepAt(_)
ParseLinesKeepAt(lines) ==
    IF lines = <<>> THEN <<>>
    ELSE ParseLineKeepAt(Head(lines)) \o ParseLinesKeepAt(Tail(lines))

parseRulesFileKeepAt(raw) == ParseLinesKeepAt(SplitLines(raw))

\* parseRulesFile: blank and comment lines skipped, every other line a Rule.
parseRulesFile(raw) == ParseLines(SplitLines(raw))

----------------------------------------------------------------------------
(* codeowners/resource_file.go: conversions between ResourceData and File. *)

TrimAt(list) == [i \in 1..Len(list) |-> TrimPrefix(list[i], <<"@">>)]

ExpandRule(rule) ==
    [Pattern |-> rule.pattern,
     Usernames |-> SortStrings(TrimAt(SetList(rule.usernames)))]

ExpandRuleKeepAt(rule) ==
    [Pattern |-> rule.pattern, Usernames |-> SortStrings(SetList(rule.usernames))]

expandRulesetKeepAt(in) == [i \in 1..Len(in) |-> ExpandRuleKeepAt(in[i])]

expandRuleset(in) == [i \in 1..Len(in) |-> ExpandRule(in[i])]

\* flattenStringList: sort.Strings sorts the caller's slice in place, and the
\* sorted elements are returned.
flattenStringList(list) == SortStrings(list)

\* The Ruleset that flattenRuleset leaves behind: range copies each Rule, but
\* the copy's Usernames shares its elements with the Ruleset's, which
\* flattenStringList therefore leaves sorted.
flattenRuleset_in(in) ==
    [i \in 1..Len(in) |->
        [Pattern |-> in[i].Pattern, Usernames |-> SortStrings(in[i].Usernames)]]

flattenRuleset(in) ==
    [i \in 1..Len(in) |->
        [pattern |-> in[i].Pattern, usernames |-> Range(flattenStringList(in[i].Usernames))]]

FormatId(owner, name, branch) == owner \o <<"/">> \o name \o <<":">> \o branch

FormatIdNoBranch(owner, name, branch) == owner \o <<"/">> \o name

flattenFileNoBranch(file, rd) ==
    [branch |-> file.Branch,
     id |-> FormatIdNoBranch(file.RepositoryOwner, file.RepositoryName, file.Branch),
     repository_name |-> file.RepositoryName,
     repository_owner |-> file.RepositoryOwner,
     rules |-> flattenRuleset(file.Ruleset)]

\* flattenFile: the ResourceData after SetId and the four Sets.
flattenFile(file, rd) ==
    [branch |-> file.Branch,
     id |-> FormatId(file.RepositoryOwner, file.RepositoryName, file.Branch),
     repository_name |-> file.RepositoryName,
     repository_owner |-> file.RepositoryOwner,
     rules |-> flattenRuleset(file.Ruleset)]

\* expandFile: the attributes, overridden by the parts of a non-empty id.
expandFile(rd) ==
    LET parts == IF rd.id # <<>> THEN SplitN2(rd.id, "/") ELSE <<>>
        subs == IF Len(parts) = 2 THEN SplitN2(parts[2], ":") ELSE <<>> IN
    [Branch |-> IF Len(subs) > 1 THEN subs[2] ELSE rd.branch,
     RepositoryOwner |-> IF Len(parts) = 2 THEN parts[1] ELSE rd.repository_owner,
     RepositoryName |-> IF Len(subs) > 0 THEN subs[1] ELSE rd.repository_name,
     Ruleset |-> expandRuleset(rd.rules)]

----------------------------------------------------------------------------
(* The remote repository and the provider configuration.                   *)

codeownersPath == ".github/CODEOWNERS"
otherPath == "README.md"
Paths == {codeownersPath, otherPath}

branchPrefix == <<"r", "e", "f", "s", "/", "h", "e", "a", "d", "s", "/">>

DefaultMaxRetries == 3         \* CreateCommit's default for MaxRetries <= 0
HandlerMaxRetries == 3         \* MaxRetries the resource handlers pass

Owner == <<"o">>
Repo == <<"r">>
MainBranch == <<"m">>          \* the repository's default branch
OtherBranch == <<"x">>

\* A SHA is the object it names; the empty string names nothing.
NoSha == [kind |-> "none"]
EmptyTree == [p \in Paths |-> None]
RootCommit(tree) == [kind |-> "commit", tree |-> tree, parents |-> <<>>, signed |-> FALSE]

TreeOf(sha) == IF sha.kind = "none" THEN EmptyTree ELSE sha.tree

\* A tree entry with content writes its path; one with neither content nor
\* SHA removes it.
ApplyEntry(tree, e) == [tree EXCEPT ![e.Path] = e.Content]

RECURSIVE ApplyEntries(_, _)
ApplyEntries(tree, entries) ==
    IF entries = <<>> THEN tree
    ELSE ApplyEntries(ApplyEntry(tree, Head(entries)), Tail(entries))

BlobEntry(path, content) ==
    [Path |-> path, Content |-> Some(content), Type |-> "blob", Mode |-> "100644"]
Tombstone(path) ==
    [Path |-> path, Content |-> None, Type |-> "blob", Mode |-> "100644"]

InitialText == <<"#", "\n", "*", " ", "@", "b", "\n">>
InitialTrees ==
    {[p \in Paths |-> IF p = otherPath THEN Some(<<"x">>) ELSE c] : c \in {None, Some(InitialText)}}

\* gpg_secret_key and gpg_passphrase.  The key "locked" has an encrypted
\* primary key, "lockedsub" an encrypted subkey; "pw" decrypts both.
GpgConfigs ==
    {[key |-> "", pass |-> "pw"],
     [key |-> "garbage", pass |-> ""], [key |-> "plain", pass |-> ""],
     [key |-> "locked", pass |-> "pw"], [key |-> "locked", pass |-> ""],
     [key |-> "lockedsub", pass |-> ""]}

\* A key ring read without decrypting what is encrypted in it.
readGPGPrivateKeyNoDecrypt(privateKey, passphrase) ==
    IF privateKey = "garbage" THEN [err |-> "invalid key", entity |-> None]
    ELSE [err |-> "", entity |-> Some(privateKey)]

\* readGPGPrivateKey: the error, or "" and the entity to sign with.
readGPGPrivateKey(privateKey, passphrase) ==
    IF privateKey = "garbage" THEN [err |-> "invalid key", entity |-> None]
    ELSE IF privateKey = "locked" /\ passphrase # "pw"
         THEN [err |-> "decryption failed", entity |-> None]
    ELSE IF privateKey = "lockedsub" /\ passphrase # "pw"
         THEN [err |-> "decryption failed", entity |-> None]
    ELSE [err |-> "", entity |-> Some(privateKey)]

\* The rule lists a configuration gives the resource.
RuleConfigs ==
    {<<>>,
     <<[pattern |-> <<"*">>, usernames |-> {<<"@", "a">>, <<"b">>}]>>}

ConfigBranches == {<<>>, OtherBranch}

\* A ResourceData of which only the id is set.
DataOfId(id) ==
    [branch |-> <<>>, id |-> id, repository_name |-> <<>>,
     repository_owner |-> <<>>, rules |-> <<>>]

ZeroData == DataOfId(<<>>)

\* What the Terraform state holds when the provider starts: no resource, or
\* a resource a previous run created and read back.
InitialData ==
    {ZeroData} \cup
    {[branch |-> br, id |-> FormatId(Owner, Repo, br), repository_name |-> Repo,
      repository_owner |-> Owner, rules |-> <<[pattern |-> <<"*">>, usernames |-> {<<"b">>}]>>] :
        br \in ConfigBranches}

ZeroFile == [Branch |-> <<>>, RepositoryOwner |-> <<>>, RepositoryName |-> <<>>, Ruleset |-> <<>>]

ZeroOptions ==
    [Branch |-> <<>>, RepoOwner |-> <<>>, RepoName |-> <<>>, GpgPassphrase |-> "",
     GpgPrivateKey |-> "", Changes |-> <<>>, BaseTreeOverride |-> None, MaxRetries |-> 0,
     PullRequestSourceBranchName |-> <<>>]

\* The locals of CreateCommit at its entry.
Locals(b, issued) ==
    [b |-> b, s |-> NoSha, tree |-> EmptyTree, commit |-> NoSha, err |-> "", from |-> issued,
     baseTree |-> NoSha, newCommit |-> NoSha, prBranchName |-> <<>>, pr |-> 0,
     prState |-> "", retryCount |-> 0, mergeRes |-> ""]

ZeroLocals == Locals(<<>>, 0)

ZeroHandler ==
    [s |-> NoSha, raw |-> None, file |-> ZeroFile, shaCaller |-> "", shaBranch |-> <<>>]

Call(api, owner, repo, arg, res) ==
    [owner |-> owner, api |-> api, repo |-> repo, arg |-> arg, res |-> res]

\* The one repository that exists.
RepoExists(owner, repo) == owner = Owner /\ repo = Repo

\* What Repositories.GetContents can answer for the CODEOWNERS path: "ok"
\* (200), "undecodable" (200 with content GetContent cannot decode), "404",
\* "500", or "neterr" (no response at all).  An empty ref means the default
\* branch.
GetContentsAnswers(owner, repo, ref) ==
    LET br == IF ref = <<>> THEN MainBranch ELSE ref
        there == /\ RepoExists(owner, repo)
                 /\ br \in DOMAIN remote.tips
                 /\ remote.tips[br].tree[codeownersPath] # None IN
    {"500", "neterr"} \cup (IF there THEN {"ok", "undecodable"} ELSE {"404"})

ContentAt(ref) ==
    LET br == IF ref = <<>> THEN MainBranch ELSE ref IN
    remote.tips[br].tree[codeownersPath][1]

\* A call that either succeeds or fails; it can succeed only on the
\* repository that exists.
Outcomes(owner, repo) == IF RepoExists(owner, repo) THEN {"ok", "err"} ELSE {"err"}

----------------------------------------------------------------------------
(* Initial state and the entry of each handler.                            *)

Idle == pc \in {"idle", "done"}

Init ==
    /\ op = "idle"
    /\ pc = "idle"
    /\ d \in InitialData
    /\ d0 = d
    /\ config \in GpgConfigs
    /\ options = ZeroOptions
    /\ cc = ZeroLocals
    /\ h = ZeroHandler
    /\ calls = <<>>
    /\ \E t \in InitialTrees :
         remote = [tips |-> [b \in {MainBranch, OtherBranch} |-> RootCommit(t)],
                   refs |-> {}, prs |-> <<>>]
    /\ ret = None
    /\ nops = 0
    /\ cache = {}
    /\ plan = <<>>
    /\ px = <<>>
    /\ py = <<>>

\* What every handler entry resets.
Enter(name, data) ==
    /\ Idle
    /\ nops < MaxOps
    /\ nops' = nops + 1
    /\ op' = name
    /\ d' = data
    /\ d0' = data
    /\ calls' = <<>>
    /\ ret' = None
    /\ UNCHANGED <<config, remote, cache, plan, px, py>>

EnterHandler(name, data, at) ==
    /\ Enter(name, data)
    /\ pc' = at
    /\ options' = ZeroOptions
    /\ cc' = ZeroLocals
    /\ h' = ZeroHandler

\* Terraform creates a resource from its configuration: the id is not set.
StartCreate ==
    \E br \in ConfigBranches, rules \in RuleConfigs :
        EnterHandler("create",
              [branch |-> br, id |-> <<>>, repository_name |-> Repo,
               repository_owner |-> Owner, rules |-> rules],
              "cu_begin")

\* Terraform updates a resource of its state with the rules of the configuration.
StartUpdate ==
    /\ d.id # <<>>
    /\ \E rules \in RuleConfigs : EnterHandler("update", [d EXCEPT !.rules = rules], "cu_begin")

StartRead ==
    /\ d.id # <<>>
    /\ EnterHandler("read", d, "read")

StartDelete ==
    /\ d.id # <<>>
    /\ EnterHandler("delete", d, "del_getFile")

\* terraform import: only the id is known.
StartImport ==
    \E br \in ConfigBranches :
        EnterHandler("import", DataOfId(FormatId(Owner, Repo, br)), "read")

----------------------------------------------------------------------------
(* pkg/branch: GetSHAForBranch, called by CreateCommit and by delete.      *)

\* Create and update that read back whatever CreateCommit returned.
ReturnThenRead(err) ==
    IF op \in {"create", "update"}
    THEN pc' = "read" /\ ret' = None
    ELSE pc' = "done" /\ ret' = Some(err)

\* What a handler returns to Terraform, or CreateCommit to the handler that
\* called it: create and update go on to read after a nil error.
Return(err) ==
    IF op \in {"create", "update"} /\ err = ""
    THEN pc' = "read" /\ ret' = None
    ELSE pc' = "done" /\ ret' = Some(err)

Frame == UNCHANGED <<op, d, d0, config, nops, cache, plan, px, py>>

CallGetSHAForBranch(hh, caller, br) ==
    /\ h' = [hh EXCEPT !.shaCaller = caller, !.shaBranch = br]
    /\ pc' = IF br = <<>> THEN "sha_default" ELSE "sha_ref"

\* GetSHAForBranch returns err to the function that called it.
ShaFailed(err) ==
    /\ cc' = IF h.shaCaller = "cc" THEN [cc EXCEPT !.err = err] ELSE cc
    /\ Return(err)
    /\ UNCHANGED h

ShaOwner == IF h.shaCaller = "cc" THEN options.RepoOwner ELSE h.file.RepositoryOwner
ShaRepo == IF h.shaCaller = "cc" THEN options.RepoName ELSE h.file.RepositoryName

\* GetSHAForBranch with an empty branch: GetDefaultBranch first.
GetSHAForBranch_GetDefaultBranch ==
    /\ pc = "sha_default"
    /\ \E res \in Outcomes(ShaOwner, ShaRepo) :
         /\ calls' = Append(calls, Call("Repositories.Get", ShaOwner, ShaRepo, <<>>, res))
         /\ IF res = "ok"
            THEN /\ h' = [h EXCEPT !.shaBranch = MainBranch]
                 /\ pc' = "sha_ref"
                 /\ UNCHANGED <<cc, ret>>
            ELSE ShaFailed("get repository failed")
    /\ UNCHANGED <<options, remote>>
    /\ Frame

\* c.Git.GetRef("refs/heads/" + branch) and the return of the tip SHA.
GetSHAForBranch_GetRef ==
    /\ pc = "sha_ref"
    /\ \E res \in IF h.shaBranch \in DOMAIN remote.tips
                  THEN Outcomes(ShaOwner, ShaRepo) ELSE {"err"} :
         /\ calls' = Append(calls, Call("Git.GetRef", ShaOwner, ShaRepo,
                                        branchPrefix \o h.shaBranch, res))
         /\ IF res = "ok"
            THEN IF h.shaCaller = "cc"
                 THEN /\ cc' = [cc EXCEPT !.s = remote.tips[h.shaBranch]]
                      /\ pc' = "cc_createTree"
                      /\ UNCHANGED <<h, ret>>
                 ELSE /\ h' = [h EXCEPT !.s = remote.tips[h.shaBranch]]
                      /\ pc' = "del_commit"
                      /\ UNCHANGED <<cc, ret>>
            ELSE ShaFailed("get ref failed")
    /\ UNCHANGED <<options, remote>>
    /\ Frame

----------------------------------------------------------------------------
(* pkg/commit: CreateCommit.                                               *)

DigitChars == <<"1", "2", "3", "4", "5", "6", "7", "8", "9">>

\* A branch name no earlier call used (the code appends time.Now().UnixNano()).
TempName(n) == <<"t", DigitChars[n]>>
GeneratedName(n) == <<"g", DigitChars[n]>>

\* The defaults of MaxRetries, b := options.Branch, and the first call.
\* cc.from notes how many calls the handler had issued before.
BeginCreateCommit(hh, opts, issued) ==
    /\ options' = [opts EXCEPT !.MaxRetries = IF @ <= 0 THEN DefaultMaxRetries ELSE @]
    /\ cc' = Locals(opts.Branch, issued)
    /\ IF opts.Branch = <<>>
       THEN pc' = "cc_getDefaultBranch" /\ h' = hh
       ELSE CallGetSHAForBranch(hh, "cc", opts.Branch)

\* The branch, base tree override and temporary branch name of the direct calls.
DirectShapes(n) ==
    {[br |-> <<>>, base |-> None, nm |-> <<>>],
     [br |-> OtherBranch, base |-> Some(NoSha), nm |-> TempName(n)],
     [br |-> OtherBranch, base |-> None, nm |-> branchPrefix \o TempName(n)],
     [br |-> <<>>, base |-> Some(NoSha), nm |-> TempName(n)]}

\* A caller of the library other than the resource handlers.
StartCreateCommit ==
    /\ Enter("direct", d)
    /\ \E shape \in DirectShapes(nops + 1), n \in (-1)..MaxBudget :
         BeginCreateCommit(ZeroHandler,
             [Branch |-> shape.br, RepoOwner |-> Owner,
              RepoName |-> Repo, GpgPassphrase |-> config.pass,
              GpgPrivateKey |-> config.key,
              Changes |-> <<BlobEntry(codeownersPath, <<"*", "\n">>)>>, BaseTreeOverride |-> shape.base, MaxRetries |-> n,
              PullRequestSourceBranchName |-> shape.nm], 0)

CCFrame == Frame /\ UNCHANGED <<options, h>>

\* CreateCommit returns err (nil is "").
CCReturn(err) == cc' = [cc EXCEPT !.err = err] /\ Return(err)

\* branch.GetDefaultBranch when options.Branch is empty.
CreateCommit_GetDefaultBranch ==
    /\ pc = "cc_getDefaultBranch"
    /\ \E res \in Outcomes(options.RepoOwner, options.RepoName) :
         /\ calls' = Append(calls, Call("Repositories.Get", options.RepoOwner,
                                        options.RepoName, <<>>, res))
         /\ IF res = "ok"
            THEN /\ cc' = [cc EXCEPT !.b = MainBranch]
                 /\ CallGetSHAForBranch(h, "cc", MainBranch)
                 /\ UNCHANGED ret
            ELSE CCReturn("get repository failed") /\ UNCHANGED h
    /\ UNCHANGED <<options, remote>>
    /\ Frame

\* client.Git.CreateTree on the branch tip or on the override.
CreateCommit_CreateTree ==
    /\ pc = "cc_createTree"
    /\ LET baseTree == IF options.BaseTreeOverride # None
                       THEN options.BaseTreeOverride[1] ELSE cc.s IN
       \E res \in Outcomes(options.RepoOwner, options.RepoName) :
         /\ calls' = Append(calls, Call("Git.CreateTree", options.RepoOwner,
                                        options.RepoName, baseTree, res))
         /\ IF res = "ok"
            THEN /\ cc' = [cc EXCEPT !.baseTree = baseTree,
                                     !.tree = ApplyEntries(TreeOf(baseTree), options.Changes)]
                 /\ pc' = "cc_getCommit"
                 /\ UNCHANGED ret
            ELSE CCReturn("create tree failed")
    /\ UNCHANGED remote
    /\ CCFrame

\* The parent taken from the base of the tree instead of the branch tip.
CreateCommit_GetCommit_ParentOfBaseTree ==
    /\ pc = "cc_getCommit"
    /\ \E res \in Outcomes(options.RepoOwner, options.RepoName) :
         /\ calls' = Append(calls, Call("Repositories.GetCommit", options.RepoOwner,
                                        options.RepoName, cc.baseTree, res))
         /\ IF res = "ok"
            THEN /\ cc' = [cc EXCEPT !.commit = [kind |-> "commit", tree |-> cc.tree,
                                                 parents |-> <<cc.baseTree>>, signed |-> FALSE]]
                 /\ pc' = IF options.GpgPrivateKey # "" THEN "cc_sign" ELSE "cc_createCommit"
                 /\ UNCHANGED ret
            ELSE CCReturn("get commit failed")
    /\ UNCHANGED remote
    /\ CCFrame

\* client.Repositories.GetCommit of the tip: the parent; then the commit
\* object is put together.
CreateCommit_GetCommit ==
    /\ pc = "cc_getCommit"
    /\ \E res \in Outcomes(options.RepoOwner, options.RepoName) :
         /\ calls' = Append(calls, Call("Repositories.GetCommit", options.RepoOwner,
                                        options.RepoName, cc.s, res))
         /\ IF res = "ok"
            THEN /\ cc' = [cc EXCEPT !.commit = [kind |-> "commit", tree |-> cc.tree,
                                                 parents |-> <<cc.s>>, signed |-> FALSE]]
                 /\ pc' = IF options.GpgPrivateKey # "" THEN "cc_sign" ELSE "cc_createCommit"
                 /\ UNCHANGED ret
            ELSE CCReturn("get commit failed")
    /\ UNCHANGED remote
    /\ CCFrame

\* The key is read, but its error is only looked at after the commit is created.
CreateCommit_ReadKey_ErrorLate ==
    /\ pc = "cc_sign"
    /\ LET k == readGPGPrivateKey(options.GpgPrivateKey, options.GpgPassphrase) IN
       /\ cc' = [cc EXCEPT !.commit.signed = (k.err = ""), !.err = k.err]
       /\ pc' = "cc_createCommit"
       /\ UNCHANGED ret
    /\ UNCHANGED <<calls, remote>>
    /\ CCFrame

\* readGPGPrivateKey when a key is configured; no remote call.
CreateCommit_ReadKey ==
    /\ pc = "cc_sign"
    /\ LET k == readGPGPrivateKey(options.GpgPrivateKey, options.GpgPassphrase) IN
       IF k.err # ""
       THEN CCReturn(k.err)
       ELSE /\ cc' = [cc EXCEPT !.commit.signed = TRUE]
            /\ pc' = "cc_createCommit"
            /\ UNCHANGED ret
    /\ UNCHANGED <<calls, remote>>
    /\ CCFrame

\* client.Git.CreateCommit, then the name of the temporary branch.
CreateCommit_CreateCommit ==
    /\ pc = "cc_createCommit"
    /\ \E res \in Outcomes(options.RepoOwner, options.RepoName) :
         /\ calls' = Append(calls, Call("Git.CreateCommit", options.RepoOwner,
                                        options.RepoName, cc.commit, res))
         /\ IF res = "ok"
            THEN LET given == IF options.PullRequestSourceBranchName = <<>>
                              THEN GeneratedName(nops)
                              ELSE options.PullRequestSourceBranchName
                     name == IF HasPrefix(given, branchPrefix) THEN given
                             ELSE branchPrefix \o given IN
                 /\ cc' = [cc EXCEPT !.newCommit = cc.commit, !.prBranchName = name]
                 /\ pc' = "cc_createRef"
                 /\ UNCHANGED ret
            ELSE CCReturn("create commit failed")
    /\ UNCHANGED remote
    /\ CCFrame

\* CreateRef with its error dropped.
CreateCommit_CreateRef_ErrorDropped ==
    /\ pc = "cc_createRef"
    /\ \E res \in Outcomes(options.RepoOwner, options.RepoName) :
         /\ calls' = Append(calls, Call("Git.CreateRef", options.RepoOwner,
                                        options.RepoName, cc.prBranchName, res))
         /\ remote' = IF res = "ok"
                      THEN [remote EXCEPT !.refs = @ \cup
                                {[name |-> cc.prBranchName, sha |-> cc.newCommit]}]
                      ELSE remote
         /\ pc' = "cc_createPR"
         /\ UNCHANGED <<cc, ret>>
    /\ CCFrame

\* client.Git.CreateRef: the temporary branch at the new commit.
CreateCommit_CreateRef ==
    /\ pc = "cc_createRef"
    /\ \E res \in Outcomes(options.RepoOwner, options.RepoName) :
         /\ calls' = Append(calls, Call("Git.CreateRef", options.RepoOwner,
                                        options.RepoName, cc.prBranchName, res))
         /\ IF res = "ok"
            THEN /\ remote' = [remote EXCEPT !.refs = @ \cup
                                   {[name |-> cc.prBranchName, sha |-> cc.newCommit]}]
                 /\ pc' = "cc_createPR"
                 /\ UNCHANGED <<cc, ret>>
            ELSE CCReturn("create ref failed") /\ UNCHANGED remote
    /\ CCFrame

\* PullRequests.Create tried a second time when the first attempt fails.
CreateCommit_CreatePullRequest_Retried ==
    /\ pc = "cc_createPR"
    /\ \E res \in Outcomes(options.RepoOwner, options.RepoName) :
         /\ calls' = Append(calls, Call("PullRequests.Create", options.RepoOwner,
                                        options.RepoName,
                                        [base |-> cc.b, head |-> cc.prBranchName], res))
         /\ IF res = "ok"
            THEN /\ remote' = [remote EXCEPT !.prs = Append(@,
                                   [base |-> cc.b, head |-> cc.prBranchName, state |-> "open"])]
                 /\ cc' = [cc EXCEPT !.pr = Len(remote.prs) + 1, !.prState = "open",
                                     !.retryCount = 1]
                 /\ pc' = "cc_merge"
                 /\ UNCHANGED ret
            ELSE IF \A i \in 1..Len(calls) : calls[i].api # "PullRequests.Create"
                 THEN UNCHANGED <<pc, cc, ret, remote>>
                 ELSE CCReturn("create pull request failed") /\ UNCHANGED remote
    /\ CCFrame

\* The pull request opened against the default branch whatever b is.
CreateCommit_CreatePullRequest_IntoDefault ==
    /\ pc = "cc_createPR"
    /\ \E res \in Outcomes(options.RepoOwner, options.RepoName) :
         /\ calls' = Append(calls, Call("PullRequests.Create", options.RepoOwner,
                                        options.RepoName,
                                        [base |-> MainBranch, head |-> cc.prBranchName], res))
         /\ IF res = "ok"
            THEN /\ remote' = [remote EXCEPT !.prs = Append(@,
                                   [base |-> MainBranch, head |-> cc.prBranchName, state |-> "open"])]
                 /\ cc' = [cc EXCEPT !.pr = Len(remote.prs) + 1, !.prState = "open",
                                     !.retryCount = 1]
                 /\ pc' = "cc_merge"
                 /\ UNCHANGED ret
            ELSE CCReturn("create pull request failed") /\ UNCHANGED remote
    /\ CCFrame

\* client.PullRequests.Create from the temporary branch into b; the merge
\* loop starts with retryCount = 1.
CreateCommit_CreatePullRequest ==
    /\ pc = "cc_createPR"
    /\ \E res \in Outcomes(options.RepoOwner, options.RepoName) :
         /\ calls' = Append(calls, Call("PullRequests.Create", options.RepoOwner,
                                        options.RepoName,
                                        [base |-> cc.b, head |-> cc.prBranchName], res))
         /\ IF res = "ok"
            THEN /\ remote' = [remote EXCEPT !.prs = Append(@,
                                   [base |-> cc.b, head |-> cc.prBranchName, state |-> "open"])]
                 /\ cc' = [cc EXCEPT !.pr = Len(remote.prs) + 1, !.prState = "open",
                                     !.retryCount = 1]
                 /\ pc' = "cc_merge"
                 /\ UNCHANGED ret
            ELSE CCReturn("create pull request failed") /\ UNCHANGED remote
    /\ CCFrame

HeadCommit(pr) == (CHOOSE r \in remote.refs : r.name = pr.head).sha

\* A pass of the merge loop that sleeps after every failed attempt, the
\* last one included.
CreateCommit_Merge_SleepAlways ==
    /\ pc = "cc_merge"
    /\ \E res \in {"ok", "405", "neterr"} :
         LET merge == Call("PullRequests.Merge", options.RepoOwner,
                           options.RepoName, cc.pr, res) IN
         IF res = "ok"
         THEN /\ calls' = Append(calls, merge)
              /\ remote' = [remote EXCEPT
                                !.tips[remote.prs[cc.pr].base] = HeadCommit(remote.prs[cc.pr]),
                                !.prs[cc.pr].state = "merged"]
              /\ pc' = "cc_deleteRef"
              /\ UNCHANGED <<cc, ret>>
         ELSE /\ cc' = [cc EXCEPT !.mergeRes = res]
              /\ IF cc.retryCount < options.MaxRetries
                 THEN calls' = Append(calls, merge) /\ pc' = "cc_sleep"
                 ELSE /\ calls' = calls \o <<merge, Call("time.Sleep", <<>>, <<>>,
                                                          cc.retryCount, "ok")>>
                      /\ pc' = "cc_closePR"
              /\ UNCHANGED <<remote, ret>>
    /\ CCFrame

\* One pass of the merge loop: client.PullRequests.Merge answers "ok", an
\* HTTP error ("405") or nothing at all ("neterr").
CreateCommit_Merge ==
    /\ pc = "cc_merge"
    /\ \E res \in {"ok", "405", "neterr"} :
         /\ calls' = Append(calls, Call("PullRequests.Merge", options.RepoOwner,
                                        options.RepoName, cc.pr, res))
         /\ IF res = "ok"
            THEN /\ remote' = [remote EXCEPT
                                   !.tips[remote.prs[cc.pr].base] = HeadCommit(remote.prs[cc.pr]),
                                   !.prs[cc.pr].state = "merged"]
                 /\ pc' = "cc_deleteRef"
                 /\ UNCHANGED <<cc, ret>>
            ELSE /\ cc' = [cc EXCEPT !.mergeRes = res]
                 /\ pc' = IF cc.retryCount < options.MaxRetries THEN "cc_sleep" ELSE "cc_closePR"
                 /\ UNCHANGED <<remote, ret>>
    /\ CCFrame

\* The sleep without retryCount++.
CreateCommit_Sleep_NoCount ==
    /\ pc = "cc_sleep"
    /\ calls' = Append(calls, Call("time.Sleep", <<>>, <<>>, cc.retryCount, "ok"))
    /\ pc' = "cc_merge"
    /\ UNCHANGED <<cc, remote, ret>>
    /\ CCFrame

\* time.Sleep(options.RetryBackoff); continue.
CreateCommit_Sleep ==
    /\ pc = "cc_sleep"
    /\ calls' = Append(calls, Call("time.Sleep", <<>>, <<>>, cc.retryCount, "ok"))
    /\ cc' = [cc EXCEPT !.retryCount = @ + 1]
    /\ pc' = "cc_merge"
    /\ UNCHANGED <<remote, ret>>
    /\ CCFrame

\* DeleteRef without the break: the loop goes on while attempts are left.
CreateCommit_DeleteRef_NoBreak ==
    /\ pc = "cc_deleteRef"
    /\ \E res \in Outcomes(options.RepoOwner, options.RepoName) :
         /\ calls' = Append(calls, Call("Git.DeleteRef", options.RepoOwner,
                                        options.RepoName, cc.prBranchName, res))
         /\ remote' = IF res = "ok"
                      THEN [remote EXCEPT !.refs = {r \in @ : r.name # cc.prBranchName}]
                      ELSE remote
    /\ IF cc.retryCount < options.MaxRetries
       THEN cc' = [cc EXCEPT !.retryCount = @ + 1] /\ pc' = "cc_merge" /\ UNCHANGED ret
       ELSE CCReturn("")
    /\ CCFrame

\* DeleteRef with its error returned to the caller.
CreateCommit_DeleteRef_ErrorReturned ==
    /\ pc = "cc_deleteRef"
    /\ \E res \in Outcomes(options.RepoOwner, options.RepoName) :
         /\ calls' = Append(calls, Call("Git.DeleteRef", options.RepoOwner,
                                        options.RepoName, cc.prBranchName, res))
         /\ remote' = IF res = "ok"
                      THEN [remote EXCEPT !.refs = {r \in @ : r.name # cc.prBranchName}]
                      ELSE remote
         /\ CCReturn(IF res = "ok" THEN "" ELSE "delete ref failed")
    /\ CCFrame

\* client.Git.DeleteRef after the merge; its error is dropped; break; return nil.
CreateCommit_DeleteRef ==
    /\ pc = "cc_deleteRef"
    /\ \E res \in Outcomes(options.RepoOwner, options.RepoName) :
         /\ calls' = Append(calls, Call("Git.DeleteRef", options.RepoOwner,
                                        options.RepoName, cc.prBranchName, res))
         /\ remote' = IF res = "ok"
                      THEN [remote EXCEPT !.refs = {r \in @ : r.name # cc.prBranchName}]
                      ELSE remote
    /\ CCReturn("")
    /\ CCFrame

\* Retries exhausted, but the pull request is left open.
CreateCommit_ClosePullRequest_NoEdit ==
    /\ pc = "cc_closePR"
    /\ LET err == IF cc.mergeRes = "405" THEN "failed to merge PR: HTTP 405"
                  ELSE "failed to merge PR" IN
       CCReturn(err)
    /\ UNCHANGED <<calls, remote>>
    /\ CCFrame

\* Retries exhausted, and the temporary branch is deleted with the pull request.
CreateCommit_ClosePullRequest_BranchDeleted ==
    /\ pc = "cc_closePR"
    /\ \E res \in Outcomes(options.RepoOwner, options.RepoName) :
         /\ calls' = Append(calls, Call("PullRequests.Edit", options.RepoOwner,
                                        options.RepoName, [state |-> "closed", number |-> cc.pr], res))
         /\ remote' = IF res = "ok"
                      THEN [remote EXCEPT !.prs[cc.pr].state = "closed",
                                          !.refs = {r \in @ : r.name # cc.prBranchName}]
                      ELSE remote
    /\ LET err == IF cc.mergeRes = "405" THEN "failed to merge PR: HTTP 405"
                  ELSE "failed to merge PR" IN
       /\ cc' = [cc EXCEPT !.prState = "closed", !.err = err]
       /\ Return(err)
    /\ CCFrame

\* Retries exhausted, the pull request closed, and nil returned.
CreateCommit_ClosePullRequest_NilReturned ==
    /\ pc = "cc_closePR"
    /\ \E res \in Outcomes(options.RepoOwner, options.RepoName) :
         /\ calls' = Append(calls, Call("PullRequests.Edit", options.RepoOwner,
                                        options.RepoName, [state |-> "closed", number |-> cc.pr], res))
         /\ remote' = IF res = "ok"
                      THEN [remote EXCEPT !.prs[cc.pr].state = "closed"]
                      ELSE remote
    /\ cc' = [cc EXCEPT !.prState = "closed"]
    /\ Return("")
    /\ CCFrame

\* Retries exhausted: pr.State = "closed", client.PullRequests.Edit with its
\* result dropped, and the merge error returned.
CreateCommit_ClosePullRequest ==
    /\ pc = "cc_closePR"
    /\ \E res \in Outcomes(options.RepoOwner, options.RepoName) :
         /\ calls' = Append(calls, Call("PullRequests.Edit", options.RepoOwner,
                                        options.RepoName, [state |-> "closed", number |-> cc.pr], res))
         /\ remote' = IF res = "ok"
                      THEN [remote EXCEPT !.prs[cc.pr].state = "closed"]
                      ELSE remote
    /\ LET err == IF cc.mergeRes = "405" THEN "failed to merge PR: HTTP 405"
                  ELSE "failed to merge PR" IN
       /\ cc' = [cc EXCEPT !.prState = "closed", !.err = err]
       /\ Return(err)
    /\ CCFrame

----------------------------------------------------------------------------
(* codeowners/resource_file.go: the handlers.                              *)

\* Read as the earlier revision had it: a 404 is an error and the id stays.
resourceFileRead_NotFoundIsError ==
    /\ pc = "read"
    /\ LET file == expandFile(d) IN
       \E ans \in GetContentsAnswers(file.RepositoryOwner, file.RepositoryName, file.Branch) :
         /\ calls' = Append(calls, Call("Repositories.GetContents", file.RepositoryOwner,
                                        file.RepositoryName, file.Branch, ans))
         /\ IF ans = "404"
            THEN d' = d /\ ret' = Some("file does not exist") /\ h' = [h EXCEPT !.file = file]
            ELSE IF ans \in {"500", "neterr"}
            THEN d' = d /\ ret' = Some("failed to retrieve file") /\ h' = [h EXCEPT !.file = file]
            ELSE IF ans = "undecodable"
            THEN d' = d /\ ret' = Some("failed to retrieve content") /\ h' = [h EXCEPT !.file = file]
            ELSE LET raw == ContentAt(file.Branch)
                     read == [file EXCEPT !.Ruleset = parseRulesFile(raw)] IN
                 /\ d' = flattenFile(read, d)
                 /\ ret' = Some("")
                 /\ h' = [h EXCEPT !.file = [read EXCEPT !.Ruleset = flattenRuleset_in(@)],
                                   !.raw = Some(raw)]
    /\ pc' = "done"
    /\ UNCHANGED <<op, d0, config, options, cc, remote, nops, cache, plan, px, py>>

\* resourceFileRead, also the tail of create and update and the whole of
\* import.  A 404 clears the id; any other failure is returned; otherwise the
\* content is parsed and flattened into the resource.
resourceFileRead ==
    /\ pc = "read"
    /\ LET file == expandFile(d) IN
       \E ans \in GetContentsAnswers(file.RepositoryOwner, file.RepositoryName, file.Branch) :
         /\ calls' = Append(calls, Call("Repositories.GetContents", file.RepositoryOwner,
                                        file.RepositoryName, file.Branch, ans))
         /\ IF ans = "404"
            THEN d' = [d EXCEPT !.id = <<>>] /\ ret' = Some("") /\ h' = [h EXCEPT !.file = file]
            ELSE IF ans \in {"500", "neterr"}
            THEN d' = d /\ ret' = Some("failed to retrieve file") /\ h' = [h EXCEPT !.file = file]
            ELSE IF ans = "undecodable"
            THEN d' = d /\ ret' = Some("failed to retrieve content") /\ h' = [h EXCEPT !.file = file]
            ELSE LET raw == ContentAt(file.Branch)
                     read == [file EXCEPT !.Ruleset = parseRulesFile(raw)] IN
                 /\ d' = flattenFile(read, d)
                 /\ ret' = Some("")
                 /\ h' = [h EXCEPT !.file = [read EXCEPT !.Ruleset = flattenRuleset_in(@)],
                                   !.raw = Some(raw)]
    /\ pc' = "done"
    /\ UNCHANGED <<op, d0, config, options, cc, remote, nops, cache, plan, px, py>>

\* Create and update that write the branch they resolved into the resource.
resourceFileCreateOrUpdate_BranchStored ==
    /\ pc = "cu_begin"
    /\ LET file == expandFile(d)
           opts(br) ==
               [Branch |-> br, RepoOwner |-> file.RepositoryOwner,
                RepoName |-> file.RepositoryName, GpgPassphrase |-> config.pass,
                GpgPrivateKey |-> config.key,
                Changes |-> <<BlobEntry(codeownersPath, Compile(file.Ruleset))>>, BaseTreeOverride |-> None,
                MaxRetries |-> HandlerMaxRetries,
                PullRequestSourceBranchName |-> TempName(nops)] IN
       IF file.Branch = <<>>
       THEN \E res \in Outcomes(file.RepositoryOwner, file.RepositoryName) :
              /\ calls' = Append(calls, Call("Repositories.Get", file.RepositoryOwner,
                                             file.RepositoryName, <<>>, res))
              /\ IF res = "ok"
                 THEN /\ BeginCreateCommit([h EXCEPT !.file = [file EXCEPT !.Branch = MainBranch]],
                                           opts(MainBranch), Len(calls) + 1)
                      /\ d' = [d EXCEPT !.branch = MainBranch]
                      /\ UNCHANGED ret
                 ELSE /\ Return("get repository failed")
                      /\ h' = [h EXCEPT !.file = file]
                      /\ UNCHANGED <<options, cc, d>>
       ELSE /\ BeginCreateCommit([h EXCEPT !.file = file], opts(file.Branch), Len(calls))
            /\ UNCHANGED <<calls, ret, d>>
    /\ UNCHANGED <<remote, op, d0, config, nops, cache, plan, px, py>>

\* Create and update that build the tree on no base tree.
resourceFileCreateOrUpdate_NoBaseTree ==
    /\ pc = "cu_begin"
    /\ LET file == expandFile(d)
           opts(br) ==
               [Branch |-> br, RepoOwner |-> file.RepositoryOwner,
                RepoName |-> file.RepositoryName, GpgPassphrase |-> config.pass,
                GpgPrivateKey |-> config.key,
                Changes |-> <<BlobEntry(codeownersPath, Compile(file.Ruleset))>>, BaseTreeOverride |-> Some(NoSha),
                MaxRetries |-> HandlerMaxRetries,
                PullRequestSourceBranchName |-> TempName(nops)] IN
       IF file.Branch = <<>>
       THEN \E res \in Outcomes(file.RepositoryOwner, file.RepositoryName) :
              /\ calls' = Append(calls, Call("Repositories.Get", file.RepositoryOwner,
                                             file.RepositoryName, <<>>, res))
              /\ IF res = "ok"
                 THEN /\ BeginCreateCommit([h EXCEPT !.file = [file EXCEPT !.Branch = MainBranch]],
                                           opts(MainBranch), Len(calls) + 1)
                      /\ UNCHANGED ret
                 ELSE /\ Return("get repository failed")
                      /\ h' = [h EXCEPT !.file = file]
                      /\ UNCHANGED <<options, cc>>
       ELSE /\ BeginCreateCommit([h EXCEPT !.file = file], opts(file.Branch), Len(calls))
            /\ UNCHANGED <<calls, ret>>
    /\ UNCHANGED remote
    /\ Frame

\* Create and update as the earlier revision had them: owner and name swapped.
resourceFileCreateOrUpdate_OwnerAndNameSwapped ==
    /\ pc = "cu_begin"
    /\ LET file == expandFile(d)
           opts(br) ==
               [Branch |-> br, RepoOwner |-> file.RepositoryName,
                RepoName |-> file.RepositoryOwner, GpgPassphrase |-> config.pass,
                GpgPrivateKey |-> config.key,
                Changes |-> <<BlobEntry(codeownersPath, Compile(file.Ruleset))>>, BaseTreeOverride |-> None,
                MaxRetries |-> HandlerMaxRetries,
                PullRequestSourceBranchName |-> TempName(nops)] IN
       IF file.Branch = <<>>
       THEN \E res \in Outcomes(file.RepositoryOwner, file.RepositoryName) :
              /\ calls' = Append(calls, Call("Repositories.Get", file.RepositoryOwner,
                                             file.RepositoryName, <<>>, res))
              /\ IF res = "ok"
                 THEN /\ BeginCreateCommit([h EXCEPT !.file = [file EXCEPT !.Branch = MainBranch]],
                                           opts(MainBranch), Len(calls) + 1)
                      /\ UNCHANGED ret
                 ELSE /\ Return("get repository failed")
                      /\ h' = [h EXCEPT !.file = file]
                      /\ UNCHANGED <<options, cc>>
       ELSE /\ BeginCreateCommit([h EXCEPT !.file = file], opts(file.Branch), Len(calls))
            /\ UNCHANGED <<calls, ret>>
    /\ UNCHANGED remote
    /\ Frame

\* resourceFileCreateOrUpdate up to the call of CreateCommit: the default
\* branch is looked up when the branch is empty, then the one CODEOWNERS
\* entry is handed to CreateCommit.
resourceFileCreateOrUpdate ==
    /\ pc = "cu_begin"
    /\ LET file == expandFile(d)
           opts(br) ==
               [Branch |-> br, RepoOwner |-> file.RepositoryOwner,
                RepoName |-> file.RepositoryName, GpgPassphrase |-> config.pass,
                GpgPrivateKey |-> config.key,
                Changes |-> <<BlobEntry(codeownersPath, Compile(file.Ruleset))>>, BaseTreeOverride |-> None,
                MaxRetries |-> HandlerMaxRetries,
                PullRequestSourceBranchName |-> TempName(nops)] IN
       IF file.Branch = <<>>
       THEN \E res \in Outcomes(file.RepositoryOwner, file.RepositoryName) :
              /\ calls' = Append(calls, Call("Repositories.Get", file.RepositoryOwner,
                                             file.RepositoryName, <<>>, res))
              /\ IF res = "ok"
                 THEN /\ BeginCreateCommit([h EXCEPT !.file = [file EXCEPT !.Branch = MainBranch]],
                                           opts(MainBranch), Len(calls) + 1)
                      /\ UNCHANGED ret
                 ELSE /\ Return("get repository failed")
                      /\ h' = [h EXCEPT !.file = file]
                      /\ UNCHANGED <<options, cc>>
       ELSE /\ BeginCreateCommit([h EXCEPT !.file = file], opts(file.Branch), Len(calls))
            /\ UNCHANGED <<calls, ret>>
    /\ UNCHANGED remote
    /\ Frame

\* Delete that does not tell a 404 from a file that is there.
resourceFileDelete_GetFile_NotFoundIgnored ==
    /\ pc = "del_getFile"
    /\ LET file == expandFile(d) IN
       \E ans \in GetContentsAnswers(file.RepositoryOwner, file.RepositoryName, file.Branch) :
         /\ calls' = Append(calls, Call("Repositories.GetContents", file.RepositoryOwner,
                                        file.RepositoryName, file.Branch, ans))
         /\ IF ans \in {"ok", "undecodable", "404"}
            THEN /\ CallGetSHAForBranch([h EXCEPT !.file = file], "delete", file.Branch)
                 /\ UNCHANGED ret
            ELSE /\ h' = [h EXCEPT !.file = file]
                 /\ Return(IF ans = "neterr" THEN "failed to read"
                           ELSE "failed to read (status code)")
    /\ UNCHANGED <<options, cc, remote>>
    /\ Frame

\* resourceFileDelete up to GetSHAForBranch: GetFile answers ErrNotFound for
\* a 404, and delete then returns nil.
resourceFileDelete_GetFile ==
    /\ pc = "del_getFile"
    /\ LET file == expandFile(d) IN
       \E ans \in GetContentsAnswers(file.RepositoryOwner, file.RepositoryName, file.Branch) :
         /\ calls' = Append(calls, Call("Repositories.GetContents", file.RepositoryOwner,
                                        file.RepositoryName, file.Branch, ans))
         /\ IF ans \in {"ok", "undecodable"}
            THEN /\ CallGetSHAForBranch([h EXCEPT !.file = file], "delete", file.Branch)
                 /\ UNCHANGED ret
            ELSE /\ h' = [h EXCEPT !.file = file]
                 /\ Return(IF ans = "404" THEN ""
                           ELSE IF ans = "neterr" THEN "failed to read"
                           ELSE "failed to read (status code)")
    /\ UNCHANGED <<options, cc, remote>>
    /\ Frame

\* The tombstone handed over with "" as the base tree.
resourceFileDelete_CreateCommit_NoBaseTree ==
    /\ pc = "del_commit"
    /\ BeginCreateCommit(h,
           [Branch |-> h.file.Branch, RepoOwner |-> h.file.RepositoryOwner,
            RepoName |-> h.file.RepositoryName, GpgPassphrase |-> config.pass,
            GpgPrivateKey |-> config.key,
            Changes |-> <<Tombstone(codeownersPath)>>, BaseTreeOverride |-> Some(NoSha),
            MaxRetries |-> HandlerMaxRetries,
            PullRequestSourceBranchName |-> TempName(nops)], Len(calls))
    /\ UNCHANGED <<calls, remote, ret>>
    /\ Frame

\* resourceFileDelete after GetSHAForBranch: a tombstone for the CODEOWNERS
\* path over the branch tip goes to CreateCommit.
resourceFileDelete_CreateCommit ==
    /\ pc = "del_commit"
    /\ BeginCreateCommit(h,
           [Branch |-> h.file.Branch, RepoOwner |-> h.file.RepositoryOwner,
            RepoName |-> h.file.RepositoryName, GpgPassphrase |-> config.pass,
            GpgPrivateKey |-> config.key,
            Changes |-> <<Tombstone(codeownersPath)>>, BaseTreeOverride |-> Some(h.s),
            MaxRetries |-> HandlerMaxRetries,
            PullRequestSourceBranchName |-> TempName(nops)], Len(calls))
    /\ UNCHANGED <<calls, remote, ret>>
    /\ Frame

\* The entries Git.GetTree lists for the paths of a tree, but for one path.
RECURSIVE TreeEntries(_, _, _)
TreeEntries(tree, paths, without) ==
    IF paths = {} THEN <<>>
    ELSE LET p == CHOOSE q \in paths : TRUE
             rest == TreeEntries(tree, paths \ {p}, without) IN
         IF tree[p] = None \/ p = without THEN rest
         ELSE <<BlobEntry(p, tree[p][1])>> \o rest

\* resourceFileDelete as the earlier revision had it: Git.GetTree of the
\* tip, every entry but CODEOWNERS handed to CreateCommit, and "" as the
\* base tree.
resourceFileDelete_GetTree ==
    /\ pc = "del_commit"
    /\ \E res \in Outcomes(h.file.RepositoryOwner, h.file.RepositoryName) :
         /\ calls' = Append(calls, Call("Git.GetTree", h.file.RepositoryOwner,
                                        h.file.RepositoryName, h.s, res))
         /\ IF res = "ok"
            THEN /\ BeginCreateCommit(h,
                       [Branch |-> h.file.Branch, RepoOwner |-> h.file.RepositoryOwner,
                        RepoName |-> h.file.RepositoryName, GpgPassphrase |-> config.pass,
                        GpgPrivateKey |-> config.key,
                        Changes |-> TreeEntries(TreeOf(h.s), Paths, codeownersPath),
                        BaseTreeOverride |-> Some(NoSha),
                        MaxRetries |-> HandlerMaxRetries,
                        PullRequestSourceBranchName |-> TempName(nops)], Len(calls) + 1)
                 /\ UNCHANGED ret
            ELSE /\ Return("get tree failed")
                 /\ UNCHANGED <<options, cc, h>>
    /\ UNCHANGED remote
    /\ Frame

----------------------------------------------------------------------------
(* The resource handlers and CreateCommit, one call after the other.       *)

Next ==
    \/ StartCreate
    \/ StartUpdate
    \/ StartRead
    \/ StartDelete
    \/ StartImport
    \/ StartCreateCommit
    \/ resourceFileRead
    \/ resourceFileCreateOrUpdate
    \/ resourceFileDelete_GetFile
    \/ resourceFileDelete_CreateCommit
    \/ resourceFileDelete_GetTree
    \/ GetSHAForBranch_GetDefaultBranch
    \/ GetSHAForBranch_GetRef
    \/ CreateCommit_GetDefaultBranch
    \/ CreateCommit_CreateTree
    \/ CreateCommit_GetCommit
    \/ CreateCommit_ReadKey
    \/ CreateCommit_CreateCommit
    \/ CreateCommit_CreateRef
    \/ CreateCommit_CreatePullRequest
    \/ CreateCommit_Merge
    \/ CreateCommit_Sleep
    \/ CreateCommit_DeleteRef
    \/ CreateCommit_ClosePullRequest

Spec == Init /\ [][Next]_vars

----------------------------------------------------------------------------
(* Properties of CreateCommit and of the handlers.                         *)

CallsOf(api) == {i \in 1..Len(calls) : calls[i].api = api}
Count(api) == Cardinality(CallsOf(api))

Merges == CallsOf("PullRequests.Merge")
FailedMerges == {i \in Merges : calls[i].res # "ok"}

\* CreateCommit was entered by the current handler, and it has returned.
CreateCommitEntered == options.MaxRetries > 0
CreateCommitReturned == CreateCommitEntered /\ pc \in {"read", "done"}

MergeErrors == {"failed to merge PR: HTTP 405", "failed to merge PR"}
SigningErrors == {"invalid key", "decryption failed"}

\* C1: a merge that succeeds after k < N failed attempts ends the loop: no
\* merge attempt follows it, the pull request is never edited, DeleteRef is
\* called only after it and at most once, and once CreateCommit has returned,
\* it has returned nil with DeleteRef called exactly once.
C1_MergeSuccessEndsLoop ==
    \A i \in Merges :
        calls[i].res = "ok" =>
            /\ \A j \in Merges : j <= i
            /\ Cardinality(FailedMerges) < options.MaxRetries
            /\ Count("PullRequests.Edit") = 0
            /\ \A j \in CallsOf("Git.DeleteRef") : j > i
            /\ Count("Git.DeleteRef") <= 1
            /\ CreateCommitReturned =>
                   /\ cc.err = ""
                   /\ Count("Git.DeleteRef") = 1
                   /\ op \in {"direct", "delete"} => ret = Some("")

\* C1 witness: two failed attempts, the third succeeds, budget 3, nil returned.
C1_Witness ==
    /\ op = "direct" /\ pc = "done" /\ ret = Some("")
    /\ options.MaxRetries = 3
    /\ Cardinality(Merges) = 3 /\ Cardinality(FailedMerges) = 2
    /\ Count("Git.DeleteRef") = 1

\* C2: when every one of the MaxRetries merge attempts has failed and
\* CreateCommit has returned, it returned a merge-failed error, and the log
\* holds exactly one PullRequests.Edit, as its last call, setting the state to
\* "closed"; before the last failed attempt no Edit is issued.
C2_ExhaustedRetriesClosePR ==
    /\ (Cardinality(FailedMerges) < options.MaxRetries \/ ~CreateCommitEntered)
           => Count("PullRequests.Edit") = 0
    /\ (CreateCommitReturned /\ Cardinality(FailedMerges) = options.MaxRetries) =>
           /\ cc.err \in MergeErrors
           /\ ret = Some(cc.err)
           /\ Count("PullRequests.Edit") = 1
           /\ calls[Len(calls)].api = "PullRequests.Edit"
           /\ calls[Len(calls)].arg = [state |-> "closed", number |-> cc.pr]
           /\ calls[Len(calls) - 1].api = "PullRequests.Merge"
           /\ cc.prState = "closed"

\* C2 witness: three failed attempts with budget 3, the error returned.
C2_Witness ==
    /\ pc = "done" /\ options.MaxRetries = 3
    /\ Cardinality(FailedMerges) = 3
    /\ ret = Some("failed to merge PR: HTTP 405")

\* C3 as claimed: when a signing error is returned, no create-tree,
\* create-commit, create-ref, create-pull-request or merge call has been issued.
C3_NoRemoteCallBeforeSigningError ==
    cc.err \in SigningErrors =>
        /\ Count("Git.CreateTree") = 0
        /\ Count("Git.CreateCommit") = 0
        /\ Count("Git.CreateRef") = 0
        /\ Count("PullRequests.Create") = 0
        /\ Count("PullRequests.Merge") = 0

\* C3 amended: when a signing error is returned, the tree has been created
\* (one successful create-tree call), and no create-commit, create-ref,
\* create-pull-request, merge, delete-ref or edit call has been issued; the
\* error is what CreateCommit returns.
C3_SigningErrorBeforeCommit ==
    cc.err \in SigningErrors =>
        /\ Count("Git.CreateTree") = 1
        /\ \A i \in CallsOf("Git.CreateTree") : calls[i].res = "ok"
        /\ Count("Git.CreateCommit") = 0
        /\ Count("Git.CreateRef") = 0
        /\ Count("PullRequests.Create") = 0
        /\ Count("PullRequests.Merge") = 0
        /\ Count("Git.DeleteRef") = 0
        /\ Count("PullRequests.Edit") = 0
        /\ pc = "done" /\ ret = Some(cc.err)

\* C3 witness: a key that cannot be decrypted stopped an apply.
C3_Witness ==
    /\ pc = "done" /\ cc.err = "decryption failed" /\ options.GpgPrivateKey = "locked"

\* The calls of the running CreateCommit, in order.
CreateCommitCalls ==
    SelectSeq(SubSeq(calls, cc.from + 1, Len(calls)),
              LAMBDA c : c.api # "Repositories.GetContents")

StepOrder ==
    <<"Repositories.Get", "Git.GetRef", "Git.CreateTree", "Repositories.GetCommit",
      "Git.CreateCommit", "Git.CreateRef", "PullRequests.Create", "PullRequests.Merge">>

LoopCalls == {"PullRequests.Merge", "time.Sleep", "Git.DeleteRef", "PullRequests.Edit"}

\* C4: the calls of one CreateCommit are a prefix of: default branch lookup
\* (exactly when no branch was given), branch tip, create tree, get parent
\* commit, create commit, create ref, create pull request, first merge; each
\* call but the last of that prefix has succeeded, and after the first merge
\* only calls of the merge loop follow.
C4_StepOrder ==
    CreateCommitEntered =>
        LET log == CreateCommitCalls
            expected == IF options.Branch = <<>> THEN StepOrder ELSE Tail(StepOrder) IN
        \A i \in 1..Len(log) :
            IF i <= Len(expected)
            THEN /\ log[i].api = expected[i]
                 /\ i < Len(log) /\ i < Len(expected) => log[i].res = "ok"
            ELSE log[i].api \in LoopCalls

\* C4 witness: a call without a branch has reached its first merge attempt.
C4_Witness ==
    /\ CreateCommitEntered /\ options.Branch = <<>>
    /\ Len(CreateCommitCalls) = Len(StepOrder)
    /\ calls[Len(calls)].api = "PullRequests.Merge"

\* C5: a delete whose existence check is answered 404 has issued that one
\* call only, has returned nil, and has left resource and repository alone.
C5_DeleteAbsentIsNoOp ==
    (op = "delete" /\ calls # <<>> /\ calls[1].res = "404") =>
        /\ Len(calls) = 1
        /\ calls[1].api = "Repositories.GetContents"
        /\ pc = "done" /\ ret = Some("")
        /\ d = d0
        /\ ~CreateCommitEntered

\* C5 witness: a delete answered 404.
C5_Witness ==
    /\ op = "delete" /\ pc = "done" /\ Len(calls) = 1 /\ calls[1].res = "404"

\* C6: a read answered 404 returns nil, clears the id and nothing else of the
\* resource, and parses nothing.
C6_ReadAbsentClearsId ==
    (pc = "done" /\ calls # <<>>
        /\ calls[Len(calls)].api = "Repositories.GetContents"
        /\ calls[Len(calls)].res = "404"
        /\ op \in {"read", "import", "create", "update"}) =>
        /\ ret = Some("")
        /\ d = [d0 EXCEPT !.id = <<>>]
        /\ h.raw = None

\* C6 witness: a read of a resource that has an id was answered 404.
C6_Witness ==
    /\ op = "read" /\ pc = "done" /\ d0.id # <<>> /\ d.id = <<>>
    /\ calls[Len(calls)].res = "404"

----------------------------------------------------------------------------
(* Functions checked on their own: the handlers are at rest.               *)

MachineAtRest ==
    /\ op = "idle"
    /\ pc = "idle"
    /\ d = ZeroData
    /\ d0 = ZeroData
    /\ config = [key |-> "", pass |-> ""]
    /\ options = ZeroOptions
    /\ cc = ZeroLocals
    /\ h = ZeroHandler
    /\ calls = <<>>
    /\ remote = [tips |-> [b \in {MainBranch, OtherBranch} |-> RootCommit(EmptyTree)],
                 refs |-> {}, prs |-> <<>>]
    /\ ret = None
    /\ nops = 0

MachineFrame ==
    UNCHANGED <<op, pc, d, d0, config, options, cc, h, calls, remote, ret, nops>>

----------------------------------------------------------------------------
(* The identity string: flattenFile, then expandFile.                      *)

IdChars == {"a", "/", ":"}

IdentityInputs ==
    {[Branch |-> b, RepositoryOwner |-> o, RepositoryName |-> n, Ruleset |-> <<>>] :
        o \in Strs(IdChars, MaxIdLen), n \in Strs(IdChars, MaxIdLen),
        b \in Strs(IdChars, MaxIdLen)}

InitIdentity ==
    /\ MachineAtRest
    /\ cache = {}
    /\ plan = <<>>
    /\ px \in IdentityInputs
    /\ py = <<>>

\* flattenFile writes the id and the attributes of the File px.
Identity_flattenFile ==
    /\ py = <<>>
    /\ py' = [file |-> ZeroFile, rd |-> flattenFile(px, ZeroData), stage |-> "flattened"]
    /\ UNCHANGED <<px, cache, plan>>
    /\ MachineFrame

\* terraform import hands over the id alone; resourceFileRead expands it.
Identity_expandFile_Imported ==
    /\ py # <<>> /\ py.stage = "flattened"
    /\ py' = [file |-> expandFile(DataOfId(py.rd.id)), rd |-> DataOfId(py.rd.id),
              stage |-> "imported"]
    /\ UNCHANGED <<px, cache, plan>>
    /\ MachineFrame

\* A later handler expands the stored id and attributes.
Identity_expandFile_Stored ==
    /\ py # <<>> /\ py.stage = "flattened"
    /\ py' = [file |-> expandFile(py.rd), rd |-> py.rd, stage |-> "stored"]
    /\ UNCHANGED <<px, cache, plan>>
    /\ MachineFrame

\* The read that follows the import writes the identity back.
Identity_flattenFile_Again ==
    /\ py # <<>> /\ py.stage = "imported"
    /\ py' = [file |-> py.file, rd |-> flattenFile(py.file, py.rd), stage |-> "reread"]
    /\ UNCHANGED <<px, cache, plan>>
    /\ MachineFrame

NextIdentity ==
    \/ Identity_flattenFile
    \/ Identity_expandFile_Imported
    \/ Identity_expandFile_Stored
    \/ Identity_flattenFile_Again

SpecIdentity == InitIdentity /\ [][NextIdentity]_vars

IdentityWellFormed ==
    /\ "/" \notin Range(px.RepositoryOwner)
    /\ ":" \notin Range(px.RepositoryName)

\* C7: for an owner without "/" and a name without ":", expandFile of the id
\* that flattenFile produced (alone, or with the stored attributes) yields
\* the owner, name and branch flattenFile was given, and the read after an
\* import writes the same id and the same three attributes again.
C7_IdentityRoundTrip ==
    (py # <<>> /\ IdentityWellFormed) =>
        /\ py.stage = "flattened" =>
               py.rd.id = px.RepositoryOwner \o <<"/">> \o px.RepositoryName
                              \o <<":">> \o px.Branch
        /\ py.stage \in {"imported", "stored", "reread"} =>
               /\ py.file.RepositoryOwner = px.RepositoryOwner
               /\ py.file.RepositoryName = px.RepositoryName
               /\ py.file.Branch = px.Branch
        /\ py.stage = "reread" => py.rd = flattenFile(px, ZeroData)

\* C7 witness: an imported id whose name holds "/" and whose branch holds ":"
\* and "/" came back as it went in.
C7_Witness ==
    /\ py # <<>> /\ py.stage = "imported"
    /\ px.RepositoryOwner = <<"a">> /\ px.RepositoryName = <<"/", "a">>
    /\ px.Branch = <<":", "/">>
    /\ py.file.Branch = <<":", "/">>

----------------------------------------------------------------------------
(* expandRuleset on usernames written with and without "@".                *)

UserNames == {<<"a">>, <<"b">>}
Patterns == {<<"*">>, <<"*", ".", "g", "o">>}

\* A configured rule: its usernames, and which of them are written with "@".
ConfiguredRules ==
    {[pattern |-> p, usernames |-> us, at |-> m] :
        p \in Patterns, us \in SUBSET UserNames, m \in SUBSET UserNames}

RuleLists(n) ==
    UNION {[1..k -> {r \in ConfiguredRules : r.at \subseteq r.usernames}] : k \in 0..n}

Written(rules) ==
    [i \in 1..Len(rules) |->
        [pattern |-> rules[i].pattern,
         usernames |-> {IF u \in rules[i].at THEN <<"@">> \o u ELSE u :
                            u \in rules[i].usernames}]]

Plain(rules) ==
    [i \in 1..Len(rules) |->
        [pattern |-> rules[i].pattern, usernames |-> rules[i].usernames]]

InitExpand ==
    /\ MachineAtRest
    /\ cache = {}
    /\ plan = <<>>
    /\ px \in RuleLists(MaxRules)
    /\ py = [plain |-> None, written |-> None]

Expand_Written ==
    /\ py.written = None
    /\ py' = [py EXCEPT !.written = Some(expandRuleset(Written(px)))]
    /\ UNCHANGED <<px, cache, plan>>
    /\ MachineFrame

Expand_Plain ==
    /\ py.plain = None
    /\ py' = [py EXCEPT !.plain = Some(expandRuleset(Plain(px)))]
    /\ UNCHANGED <<px, cache, plan>>
    /\ MachineFrame

NextExpand == Expand_Written \/ Expand_Plain

SpecExpand == InitExpand /\ [][NextExpand]_vars

IsSorted(list) == \A j \in 1..(Len(list) - 1) : ~StrLess(list[j + 1], list[j])

\* C8: expandRuleset of a rule list keeps every pattern in place, yields each
\* rule's usernames without the "@", sorted, one per configured username,
\* and yields the same Ruleset for the list written without any "@".
C8_AtSignIsOptional ==
    py.written # None =>
        LET out == py.written[1] IN
        /\ Len(out) = Len(px)
        /\ \A i \in 1..Len(px) :
               /\ out[i].Pattern = px[i].pattern
               /\ Range(out[i].Usernames) = px[i].usernames
               /\ Len(out[i].Usernames) = Cardinality(px[i].usernames)
               /\ IsSorted(out[i].Usernames)
               /\ \A j \in 1..Len(out[i].Usernames) :
                      ~HasPrefix(out[i].Usernames[j], <<"@">>)
        /\ py.plain # None => py.written = py.plain

\* C8 witness: two usernames, the larger one written with "@", expanded in
\* both spellings.
C8_Witness ==
    /\ py.written # None /\ py.plain # None
    /\ Len(px) = 1 /\ px[1].usernames = UserNames /\ px[1].at = {<<"b">>}
    /\ py.written[1][1].Usernames = <<<<"a">>, <<"b">>>>

----------------------------------------------------------------------------
(* usernamesDiffSupressFunc and diffResultCache.                           *)

\* "rules.0.usernames": the path of the set field of the first rule.
UsernamesKey ==
    <<"r", "u", "l", "e", "s", ".", "0", ".", "u", "s", "e", "r", "n", "a", "m", "e", "s">>

\* The keys Terraform passes: the paths of two elements of that set.
ElementKeys == {UsernamesKey \o <<".", "0">>, UsernamesKey \o <<".", "1">>}

\* The resources of one provider process: two not yet created, one created.
DiffResources == 1..3

\* d.Id() of a resource.
ResourceId(res) == IF res = 3 THEN FormatId(Owner, Repo, <<>>) ELSE <<>>

\* d.Id(): a resource not yet created, and a created one.
DiffIds == {ResourceId(res) : res \in DiffResources}

\* A value of d.GetChange that is not a *schema.Set.
NotASet == <<"string", <<"a">>>>

\* What d.GetChange(key) answers for one side: nil, a set of usernames, or
\* a value of another type.
ChangeValues ==
    {None, Some({}), Some({<<"a">>}), Some({<<"@", "a">>}), Some({<<"b">>}),
     Some({<<"@", "a">>, <<"b">>}), NotASet}

\* The key cut at its last ".": the path of the set.
SetKeyOf(key) ==
    LET lastDotIndex == LastIndex(key, ".") IN
    IF lastDotIndex # 0 THEN SubSeq(key, 1, lastDotIndex - 1) ELSE key

CacheKey(id, key) == id \o <<".">> \o SetKeyOf(key)

\* The comparison without strings.TrimPrefix(item, "@").
CompareChangeNoTrim(old, new) ==
    IF old = None \/ new = None THEN [stored |-> FALSE, result |-> FALSE]
    ELSE IF Len(old) # 1 THEN [stored |-> FALSE, result |-> FALSE]
    ELSE IF Len(new) # 1 THEN [stored |-> FALSE, result |-> FALSE]
    ELSE LET oldArray == SetList(old[1])
             newArray == SetList(new[1]) IN
         IF Len(oldArray) # Len(newArray) THEN [stored |-> FALSE, result |-> FALSE]
         ELSE [stored |-> TRUE,
               result |-> SortStrings(oldArray) = SortStrings(newArray)]

\* The comparison of the code after a cache miss: the result, and whether it
\* is stored.
CompareChange(old, new) ==
    IF old = None \/ new = None THEN [stored |-> FALSE, result |-> FALSE]
    ELSE IF Len(old) # 1 THEN [stored |-> FALSE, result |-> FALSE]
    ELSE IF Len(new) # 1 THEN [stored |-> FALSE, result |-> FALSE]
    ELSE LET oldArray == SetList(old[1])
             newArray == SetList(new[1]) IN
         IF Len(oldArray) # Len(newArray) THEN [stored |-> FALSE, result |-> FALSE]
         ELSE [stored |-> TRUE,
               result |-> SortStrings(TrimAt(oldArray)) = SortStrings(TrimAt(newArray))]

InitCache ==
    /\ MachineAtRest
    /\ cache = {}
    /\ plan = {}
    /\ px = 0
    /\ py = <<>>

\* The calls run in goroutines, one call at a time for each resource.  px
\* counts the calls begun, plan holds the calls between their Load and their
\* Store with their local variables, and py is the call that returned last:
\* what it was given, what it returned, and what the comparison of its own
\* old and new returns.  The field by of a cache entry and of py is not in
\* the code: it names the resource whose call stored the entry.

\* usernamesDiffSupressFunc(key, _, _, d) for the resource res up to its
\* return or, when the full comparison is made, up to before its Store: the
\* Load of cacheKey returns a cached result; without one, a missing value, a
\* value that is not a set and sets of two sizes return false.
usernamesDiffSupressFunc_Load ==
    /\ px < MaxDiffCalls
    /\ \E key \in ElementKeys, res \in DiffResources, old \in ChangeValues, new \in ChangeValues :
         LET id == ResourceId(res)
             cacheKey == CacheKey(id, key)
             hit == {e \in cache : e.key = cacheKey}
             fresh == CompareChange(old, new) IN
         /\ \A c \in plan : c.res # res
         /\ IF hit # {}
            THEN /\ py' = [id |-> id, res |-> res, stored |-> FALSE, old |-> old,
                           new |-> new,
                           result |-> (CHOOSE e \in hit : TRUE).result, fresh |-> fresh.result, cached |-> TRUE,
                           by |-> (CHOOSE e \in hit : TRUE).by]
                 /\ plan' = plan
            ELSE IF ~fresh.stored
            THEN /\ py' = [id |-> id, res |-> res, stored |-> FALSE, old |-> old,
                           new |-> new, result |-> fresh.result,
                           fresh |-> fresh.result, cached |-> FALSE, by |-> res]
                 /\ plan' = plan
            ELSE /\ plan' = plan \cup {[id |-> id, res |-> res, old |-> old,
                                         new |-> new, cacheKey |-> cacheKey]}
                 /\ py' = py
    /\ px' = px + 1
    /\ cache' = cache
    /\ MachineFrame

\* The rest of a call that made the full comparison: Store puts the result
\* under cacheKey, in the place of any entry another call stored there since
\* the Load, and the call returns it.
usernamesDiffSupressFunc_Store ==
    /\ \E c \in plan :
         LET result == CompareChange(c.old, c.new).result IN
         /\ cache' = {e \in cache : e.key # c.cacheKey}
                        \cup {[key |-> c.cacheKey, result |-> result, by |-> c.res]}
         /\ py' = [id |-> c.id, res |-> c.res, stored |-> TRUE, old |-> c.old,
                   new |-> c.new, result |-> result, fresh |-> result,
                   cached |-> FALSE, by |-> c.res]
         /\ plan' = plan \ {c}
    /\ px' = px
    /\ MachineFrame

NextCache ==
    \/ usernamesDiffSupressFunc_Load
    \/ usernamesDiffSupressFunc_Store

SpecCache == InitCache /\ [][NextCache]_vars

\* C9 as claimed: every call returns what the comparison of the old and new
\* values it was given returns.
C9_CacheIsTransparent ==
    py # <<>> => py.result = py.fresh

\* C22 as claimed: a call that finds a cache entry finds one that a call
\* for the same resource stored, so that calls for other resources do not
\* change what it returns.
C22_ResourcesIndependent ==
    py # <<>> /\ py.cached => py.by = py.res

\* A username without one leading "@".
Bare(u) == IF u # <<>> /\ u[1] = "@" THEN Tail(u) ELSE u

\* C29: a call that misses the cache returns true exactly when old and new
\* are both sets, of the same size, that hold every name, leading "@"
\* removed, the same number of times; it stores what it returns exactly when
\* both are sets of the same size, and nothing otherwise.
C29_SuppressIffSameNames ==
    py # <<>> /\ ~py.cached =>
        LET old == py.old
            new == py.new
            sets == Len(old) = 1 /\ Len(new) = 1
            sized == sets /\ Cardinality(old[1]) = Cardinality(new[1])
            same == sized /\ \A u \in old[1] \cup new[1] :
                        Cardinality({v \in old[1] : Bare(v) = Bare(u)})
                            = Cardinality({v \in new[1] : Bare(v) = Bare(u)})
            entries == {e \in cache : e.key = py.id \o <<".">> \o UsernamesKey} IN
        /\ py.result = same
        /\ py.stored = sized
        /\ sized => \E e \in entries : e.result = same
        /\ ~sized => entries = {}

\* C29 witness: {"a"} against {"@a"} with nothing cached is suppressed and
\* stored.
C29_Witness ==
    /\ py # <<>> /\ ~py.cached /\ py.result /\ py.stored
    /\ py.old = Some({<<"a">>}) /\ py.new = Some({<<"@", "a">>})
    /\ cache # {}

----------------------------------------------------------------------------
(* Ruleset.Equal.                                                          *)

\* The rules compared: two patterns, the same usernames in both orders, one
\* username, and a username twice.
EqRules ==
    {[Pattern |-> <<"*">>, Usernames |-> <<<<"a">>>>],
     [Pattern |-> <<"*">>, Usernames |-> <<<<"b">>>>],
     [Pattern |-> <<"*", ".", "g", "o">>, Usernames |-> <<<<"a">>>>],
     [Pattern |-> <<"*", ".", "g", "o">>, Usernames |-> <<<<"b">>>>],
     [Pattern |-> <<"*">>, Usernames |-> <<<<"a">>, <<"b">>>>],
     [Pattern |-> <<"*">>, Usernames |-> <<<<"b">>, <<"a">>>>],
     [Pattern |-> <<"*">>, Usernames |-> <<<<"a">>, <<"a">>>>]}

EqRulesets(n) == UNION {[1..k -> EqRules] : k \in 0..n}

InitEqual ==
    /\ MachineAtRest
    /\ cache = {}
    /\ plan = <<>>
    /\ \E a \in EqRulesets(MaxEqRules), b \in EqRulesets(MaxEqRules) : px = [a |-> a, b |-> b]
    /\ py = <<>>

\* a.Equal(b) and b.Equal(a).
Equal_Compare ==
    /\ py = <<>>
    /\ py' = [ab |-> Equal(px.a, px.b), ba |-> Equal(px.b, px.a)]
    /\ UNCHANGED <<px, cache, plan>>
    /\ MachineFrame

NextEqual == Equal_Compare

SpecEqual == InitEqual /\ [][NextEqual]_vars

\* The (pattern, set of usernames) pairs of a Ruleset.
Pairs(rs) == {<<rs[i].Pattern, Range(rs[i].Usernames)>> : i \in 1..Len(rs)}

\* No username twice in a rule, no (pattern, set of usernames) pair twice.
NoRepeats(rs) ==
    /\ \A i \in 1..Len(rs) : Cardinality(Range(rs[i].Usernames)) = Len(rs[i].Usernames)
    /\ Cardinality(Pairs(rs)) = Len(rs)

\* C10 as claimed: for all Rulesets a and b, Equal(a, b) is true exactly when
\* a and b hold the same (pattern, set of usernames) pairs; Equal(a, b) =
\* Equal(b, a), and the empty Ruleset equals the empty Ruleset only.
C10_EqualAsClaimed ==
    py # <<>> =>
        /\ py.ab <=> Pairs(px.a) = Pairs(px.b)
        /\ py.ab = py.ba
        /\ (px.a = <<>> \/ px.b = <<>>) => (py.ab <=> px.a = px.b)

\* C10: for Rulesets that repeat no username inside a rule and no rule,
\* Equal(a, b) is true exactly when a and b hold the same (pattern, set of
\* usernames) pairs; Equal(a, b) = Equal(b, a) for all Rulesets, and the
\* empty Ruleset equals the empty Ruleset only.
C10_EqualIsPairSetEquality ==
    py # <<>> =>
        /\ (NoRepeats(px.a) /\ NoRepeats(px.b)) => (py.ab <=> Pairs(px.a) = Pairs(px.b))
        /\ py.ab = py.ba
        /\ (px.a = <<>> \/ px.b = <<>>) => (py.ab <=> px.a = px.b)

\* C10 witness: the same two rules in the other order, one with its usernames
\* in the other order, compared equal.
C10_Witness ==
    /\ py # <<>> /\ py.ab
    /\ px.a = <<[Pattern |-> <<"*", ".", "g", "o">>, Usernames |-> <<<<"a">>>>],
                [Pattern |-> <<"*">>, Usernames |-> <<<<"a">>, <<"b">>>>]>>
    /\ px.b = <<[Pattern |-> <<"*">>, Usernames |-> <<<<"b">>, <<"a">>>>],
                [Pattern |-> <<"*", ".", "g", "o">>, Usernames |-> <<<<"a">>>>]>>

----------------------------------------------------------------------------
(* Ruleset.Compile, then parseRulesFile.                                   *)

\* Patterns: a glob, the empty pattern, a comment marker in front and
\* behind, and a pattern holding a space.
FilePatterns == {<<"*">>, <<>>, <<"#">>, <<"a", "#">>, <<"a", " ", "b">>}

\* Username lists: none, one, two, and one username holding a space.
FileUsernames ==
    {<<>>, <<<<"a">>>>, <<<<"b">>, <<"a">>>>, <<<<"a", " ", "b">>>>}

FileRules == {[Pattern |-> p, Usernames |-> us] : p \in FilePatterns, us \in FileUsernames}

FileRulesets(n) == UNION {[1..k -> FileRules] : k \in 0..n}

InitRoundTrip ==
    /\ MachineAtRest
    /\ cache = {}
    /\ plan = <<>>
    /\ px \in FileRulesets(MaxFileRules)
    /\ py = <<>>

\* file.Ruleset.Compile(), the content written to the repository.
RoundTrip_Compile ==
    /\ py = <<>>
    /\ py' = [text |-> Compile(px), stage |-> "compiled", back |-> <<>>, equal |-> FALSE]
    /\ UNCHANGED <<px, cache, plan>>
    /\ MachineFrame

\* parseRulesFile of that content, and its comparison with the Ruleset.
RoundTrip_Parse ==
    /\ py # <<>> /\ py.stage = "compiled"
    /\ LET back == parseRulesFile(py.text) IN
       py' = [text |-> py.text, stage |-> "parsed", back |-> back,
              equal |-> Equal(px, back)]
    /\ UNCHANGED <<px, cache, plan>>
    /\ MachineFrame

NextRoundTrip == RoundTrip_Compile \/ RoundTrip_Parse

SpecRoundTrip == InitRoundTrip /\ [][NextRoundTrip]_vars

NoSpace(str) == \A i \in 1..Len(str) : ~IsSpace(str[i])

UsernamesSpaceFree(rs) ==
    \A i \in 1..Len(rs) : \A j \in 1..Len(rs[i].Usernames) : NoSpace(rs[i].Usernames[j])

\* The patterns hold no whitespace and do not start with "#".
PatternsAsClaimed(rs) ==
    \A i \in 1..Len(rs) :
        /\ NoSpace(rs[i].Pattern)
        /\ ~HasPrefix(rs[i].Pattern, <<"#">>)

PatternsNonEmpty(rs) == \A i \in 1..Len(rs) : rs[i].Pattern # <<>>

\* C11 as claimed: a Ruleset with whitespace-free usernames and with patterns
\* that hold no whitespace and do not start with "#" equals what
\* parseRulesFile makes of its compiled text.
C11_RoundTripAsClaimed ==
    (py # <<>> /\ py.stage = "parsed" /\ UsernamesSpaceFree(px) /\ PatternsAsClaimed(px))
        => py.equal

\* C11 amended: the same, for patterns that are also not empty.
C11_RoundTripNonEmptyPatterns ==
    (py # <<>> /\ py.stage = "parsed" /\ UsernamesSpaceFree(px) /\ PatternsAsClaimed(px)
        /\ PatternsNonEmpty(px))
        => (py.equal /\ py.back = px)

\* C11 witness: two rules, one with two usernames, came back equal.
C11_Witness ==
    /\ py # <<>> /\ py.stage = "parsed" /\ py.equal
    /\ px = <<[Pattern |-> <<"a", "#">>, Usernames |-> <<<<"b">>, <<"a">>>>],
              [Pattern |-> <<"*">>, Usernames |-> <<<<"a">>>>]>>

----------------------------------------------------------------------------
(* parseRulesFile on texts made of known lines.                            *)

\* Lines of a CODEOWNERS file, each with the rules it stands for: a blank
\* line, a line of spaces, a comment, an indented comment, a rule, a rule
\* with two usernames (one without "@") and spaces around, a pattern alone.
FileLines ==
    {[line |-> <<>>, rules |-> <<>>],
     [line |-> <<" ", " ">>, rules |-> <<>>],
     [line |-> <<"#", " ", "x">>, rules |-> <<>>],
     [line |-> <<" ", " ", "#", "x">>, rules |-> <<>>],
     [line |-> <<"*", " ", "@", "a">>,
      rules |-> <<[Pattern |-> <<"*">>, Usernames |-> <<<<"a">>>>]>>],
     [line |-> <<" ", "*", ".", "g", "o", " ", " ", "@", "b", " ", "a", " ">>,
      rules |-> <<[Pattern |-> <<"*", ".", "g", "o">>, Usernames |-> <<<<"b">>, <<"a">>>>]>>],
     [line |-> <<"*">>, rules |-> <<[Pattern |-> <<"*">>, Usernames |-> <<>>]>>]}

FileTexts(n) == UNION {[1..k -> FileLines] : k \in 0..n}

RECURSIVE JoinLines(_)
\* The lines separated by newlines.
JoinLines(lines) ==
    IF lines = <<>> THEN <<>>
    ELSE IF Len(lines) = 1 THEN lines[1].line
    ELSE lines[1].line \o <<"\n">> \o JoinLines(Tail(lines))

RECURSIVE RulesOfLines(_)
RulesOfLines(lines) ==
    IF lines = <<>> THEN <<>> ELSE lines[1].rules \o RulesOfLines(Tail(lines))

InitParse ==
    /\ MachineAtRest
    /\ cache = {}
    /\ plan = <<>>
    /\ \E lines \in FileTexts(MaxFileLines), nl \in BOOLEAN : px = [lines |-> lines, nl |-> nl]
    /\ py = <<>>

\* parseRulesFile(raw) of the joined lines, with a newline at the end or not.
Parse_parseRulesFile ==
    /\ py = <<>>
    /\ LET raw == JoinLines(px.lines) \o (IF px.nl THEN <<"\n">> ELSE <<>>) IN
       py' = [text |-> raw, rules |-> parseRulesFile(raw)]
    /\ UNCHANGED <<px, cache, plan>>
    /\ MachineFrame

NextParse == Parse_parseRulesFile

SpecParse == InitParse /\ [][NextParse]_vars

\* C12: parseRulesFile yields, in file order, one Rule per line that is
\* neither blank nor a comment (indented or not): the first token as the
\* pattern, the other tokens without their leading "@" as the usernames;
\* a text of blank lines and comments only yields the empty Ruleset.
C12_ParseKeepsRuleLines ==
    py # <<>> =>
        /\ py.rules = RulesOfLines(px.lines)
        /\ (\A i \in 1..Len(px.lines) : px.lines[i].rules = <<>>) => py.rules = <<>>

\* C12 witness: an indented comment, then a rule with two usernames between
\* spaces, parsed to that one rule.
C12_Witness ==
    /\ py # <<>> /\ Len(px.lines) = 2 /\ px.nl
    /\ px.lines[1].line = <<" ", " ", "#", "x">>
    /\ py.rules = <<[Pattern |-> <<"*", ".", "g", "o">>, Usernames |-> <<<<"b">>, <<"a">>>>]>>

----------------------------------------------------------------------------
(* The form of the compiled text.                                          *)

RECURSIVE Concat(_)
Concat(parts) == IF parts = <<>> THEN <<>> ELSE Head(parts) \o Concat(Tail(parts))

\* "pattern @u1 @u2 ...": the line of one rule, without its newline.
LineOfRule(rule) ==
    rule.Pattern \o
    Concat([j \in 1..Len(rule.Usernames) |-> <<" ", "@">> \o rule.Usernames[j]])

\* C13: the compiled text of a Ruleset, cut at its newlines, is the line
\* "pattern @u1 @u2 ..." of each rule, in the order of the rules and of
\* their usernames, and an empty rest after the last newline: one newline
\* per rule, nothing before the first line and nothing after the last.
C13_CompileOneLinePerRule ==
    (py # <<>> /\ py.stage = "compiled") =>
        LET lines == SplitLines(py.text) IN
        /\ Len(lines) = Len(px) + 1
        /\ lines[Len(lines)] = <<>>
        /\ \A i \in 1..Len(px) : lines[i] = LineOfRule(px[i])
        /\ Cardinality({i \in 1..Len(py.text) : py.text[i] = "\n"}) = Len(px)

\* C13 witness: two rules, the first with two usernames, compiled.
C13_Witness ==
    /\ py # <<>> /\ py.stage = "compiled"
    /\ px = <<[Pattern |-> <<"*">>, Usernames |-> <<<<"b">>, <<"a">>>>],
              [Pattern |-> <<"a", "#">>, Usernames |-> <<<<"a">>>>]>>
    /\ py.text = <<"*", " ", "@", "b", " ", "@", "a", "\n", "a", "#", " ", "@", "a", "\n">>

----------------------------------------------------------------------------
(* provider.go: mergeMethod.                                               *)

mergeMethods ==
    <<<<"m", "e", "r", "g", "e">>, <<"s", "q", "u", "a", "s", "h">>,
      <<"r", "e", "b", "a", "s", "e">>>>

\* A merge_method taken as it is given, "merge" only when it is empty.
mergeMethodUnchecked(mm) == IF mm = <<>> THEN mergeMethods[1] ELSE mm

\* mergeMethod: mm when it is one of the three methods, else "merge".
mergeMethod(mm) ==
    IF \E i \in 1..Len(mergeMethods) : mm = mergeMethods[i] THEN mm
    ELSE <<"m", "e", "r", "g", "e">>

\* The values of merge_method: the three methods, other spellings of them,
\* and every string of the letters of "merge" up to a length.
MethodInputs ==
    Strs({"m", "e", "r", "g"}, MaxMethodLen)
    \cup Range(mergeMethods)
    \cup {<<"M", "e", "r", "g", "e">>, <<"S", "Q", "U", "A", "S", "H">>,
          <<"r", "e", "b", "a", "s", "e", " ">>, <<"w", "a", "t", "?">>}

InitMethod ==
    /\ MachineAtRest
    /\ cache = {}
    /\ plan = <<>>
    /\ px \in MethodInputs
    /\ py = <<>>

\* providerConfigure: mergeMethod(d.Get("merge_method")).
Method_mergeMethod ==
    /\ py = <<>>
    /\ py' = [out |-> mergeMethod(px), again |-> None]
    /\ UNCHANGED <<px, cache, plan>>
    /\ MachineFrame

\* mergeMethod of what mergeMethod returned.
Method_mergeMethod_Again ==
    /\ py # <<>> /\ py.again = None
    /\ py' = [py EXCEPT !.again = Some(mergeMethod(py.out))]
    /\ UNCHANGED <<px, cache, plan>>
    /\ MachineFrame

NextMethod == Method_mergeMethod \/ Method_mergeMethod_Again

SpecMethod == InitMethod /\ [][NextMethod]_vars

\* C14: mergeMethod returns "merge", "squash" and "rebase" as they are and
\* "merge" for every other value, the empty one and other spellings
\* included; applied to its own result it returns that result.
C14_MergeMethodDefaultsToMerge ==
    py # <<>> =>
        /\ px = <<"m", "e", "r", "g", "e">> => py.out = px
        /\ px = <<"s", "q", "u", "a", "s", "h">> => py.out = px
        /\ px = <<"r", "e", "b", "a", "s", "e">> => py.out = px
        /\ px \notin {<<"m", "e", "r", "g", "e">>, <<"s", "q", "u", "a", "s", "h">>,
                      <<"r", "e", "b", "a", "s", "e">>}
               => py.out = <<"m", "e", "r", "g", "e">>
        /\ py.again # None => py.again[1] = py.out

\* C14 witness: "SQUASH" became "merge", and stayed "merge".
C14_Witness ==
    /\ py # <<>> /\ px = <<"S", "Q", "U", "A", "S", "H">>
    /\ py.out = <<"m", "e", "r", "g", "e">>
    /\ py.again = Some(<<"m", "e", "r", "g", "e">>)

----------------------------------------------------------------------------
(* CreateCommit: cleanup calls and the steps before the merge loop.        *)

\* C15: the cleanup calls are best effort. DeleteRef and the closing Edit
\* are issued at most once each; a CreateCommit that has returned after a
\* DeleteRef, failed or not, has returned nil; one that has returned after
\* an Edit, failed or not, has returned the error of its last merge attempt.
C15_CleanupIsBestEffort ==
    /\ Count("Git.DeleteRef") <= 1
    /\ Count("PullRequests.Edit") <= 1
    /\ \A i \in CallsOf("Git.DeleteRef") :
         /\ i > 1 /\ calls[i - 1].api = "PullRequests.Merge" /\ calls[i - 1].res = "ok"
         /\ cc.err = "" /\ (op = "direct" => ret = Some(""))
         /\ \A j \in (i + 1)..Len(calls) : calls[j].api = "Repositories.GetContents"
    /\ \A i \in CallsOf("PullRequests.Edit") :
         /\ i = Len(calls) /\ pc = "done"
         /\ calls[i - 1].api = "PullRequests.Merge"
         /\ ret = Some(IF calls[i - 1].res = "405" THEN "failed to merge PR: HTTP 405"
                       ELSE "failed to merge PR")

\* C15 witness: the branch could not be deleted after the merge, and the
\* call has returned nil.
C15_Witness ==
    /\ op = "direct" /\ pc = "done" /\ ret = Some("")
    /\ \E i \in CallsOf("Git.DeleteRef") : calls[i].res = "err"

\* The steps before the merge loop and the error each returns.
StepErrors ==
    [api \in {"Repositories.Get", "Git.GetRef", "Git.CreateTree", "Repositories.GetCommit",
              "Git.CreateCommit", "Git.CreateRef", "PullRequests.Create"} |->
        CASE api = "Repositories.Get" -> "get repository failed"
          [] api = "Git.GetRef" -> "get ref failed"
          [] api = "Git.CreateTree" -> "create tree failed"
          [] api = "Repositories.GetCommit" -> "get commit failed"
          [] api = "Git.CreateCommit" -> "create commit failed"
          [] api = "Git.CreateRef" -> "create ref failed"
          [] api = "PullRequests.Create" -> "create pull request failed"]

\* C16: one CreateCommit issues each step before the merge loop at most
\* once, and a step that fails is its last call: CreateCommit has returned
\* the error of that step.
C16_StepsNotRetried ==
    CreateCommitEntered =>
        LET log == CreateCommitCalls IN
        /\ \A api \in DOMAIN StepErrors :
             Cardinality({i \in 1..Len(log) : log[i].api = api}) <= 1
        /\ \A i \in 1..Len(log) :
             log[i].api \in DOMAIN StepErrors /\ log[i].res # "ok" =>
                /\ i = Len(log) /\ cc.from + i = Len(calls)
                /\ pc = "done"
                /\ cc.err = StepErrors[log[i].api]
                /\ ret = Some(StepErrors[log[i].api])

\* C16 witness: the pull request could not be created.
C16_Witness ==
    /\ CreateCommitEntered /\ pc = "done"
    /\ calls[Len(calls)].api = "PullRequests.Create" /\ calls[Len(calls)].res = "err"
    /\ ret = Some("create pull request failed")

----------------------------------------------------------------------------
(* The handlers and the empty branch.                                      *)

\* C17: a create or update of a resource whose branch is "", and whose id
\* is not set or is "o/r:", looks the default branch up once, as its first
\* call, and hands it to CreateCommit;
\* the branch of the resource stays "", the file is read back with the empty
\* ref, and when the handler has returned nil the id is "o/r:". A read or
\* an import never issues the lookup, and in a delete only GetSHAForBranch
\* and CreateCommit issue it.
C17_EmptyBranchNeverStored ==
    /\ [](op \in {"create", "update"} /\ d0.branch = <<>>
            /\ d0.id \in {<<>>, <<"o", "/", "r", ":">>} =>
            /\ d.branch = <<>>
            /\ CallsOf("Repositories.Get") \subseteq {1}
            /\ CreateCommitEntered =>
                  /\ options.Branch = <<"m">>
                  /\ calls[1].api = "Repositories.Get" /\ cc.from = 1
            /\ \A i \in CallsOf("Repositories.GetContents") : calls[i].arg = <<>>
            /\ op = "update" => d.id = <<"o", "/", "r", ":">>
            /\ pc = "done" /\ ret = Some("") => d.id = <<"o", "/", "r", ":">>)
    /\ [](op \in {"read", "import"} => Count("Repositories.Get") = 0)
    /\ [][op' \in {"read", "import", "delete"} /\ Len(calls') > Len(calls)
            /\ calls'[Len(calls')].api = "Repositories.Get"
          => pc \in {"sha_default", "cc_getDefaultBranch"}]_vars

\* C17 witness: a resource without a branch was created on the default
\* branch and read back.
C17_Witness ==
    /\ op = "create" /\ d0.branch = <<>> /\ pc = "done" /\ ret = Some("")
    /\ calls[1].api = "Repositories.Get" /\ options.Branch = <<"m">>
    /\ d.branch = <<>> /\ d.id = <<"o", "/", "r", ":">>

----------------------------------------------------------------------------
(* CreateCommit: the commit object, signing, and the working branch.       *)

\* The calls of the running CreateCommit to one API.
StepCalls(api) ==
    {i \in CallsOf(api) : CreateCommitEntered /\ i > cc.from}

NoMergeYet == \A i \in Merges : calls[i].res # "ok"

\* C18: the commit handed to Git.CreateCommit has exactly one parent, the
\* tip of the working branch as GetRef returned it, whether or not a base
\* tree override is set; its tree is the changes applied to the tree of the
\* override when one is set (to the empty tree when the override is the
\* empty SHA) and to the tree of the tip otherwise, and that base is what
\* Git.CreateTree was called with.
C18_ParentIsBranchTip ==
    \A i \in StepCalls("Git.CreateCommit") :
        LET commit == calls[i].arg
            base == IF options.BaseTreeOverride = None THEN cc.s
                    ELSE options.BaseTreeOverride[1] IN
        /\ Len(commit.parents) = 1
        /\ commit.parents[1] = cc.s
        /\ cc.s # [kind |-> "none"]
        /\ NoMergeYet => cc.s = remote.tips[cc.b]
        /\ \A j \in StepCalls("Repositories.GetCommit") : calls[j].arg = cc.s
        /\ \A j \in StepCalls("Git.CreateTree") : calls[j].arg = base
        /\ commit.tree = ApplyEntries(IF base = [kind |-> "none"]
                                      THEN [p \in Paths |-> None] ELSE base.tree,
                                      options.Changes)

\* C18 witness: a commit made with the empty SHA as base tree holds the
\* changes only, and its parent is the tip, whose tree holds another file.
C18_Witness ==
    /\ op = "direct" /\ options.BaseTreeOverride = Some(NoSha)
    /\ \E i \in StepCalls("Git.CreateCommit") :
         /\ calls[i].res = "ok"
         /\ calls[i].arg.parents = <<cc.s>>
         /\ cc.s.tree[otherPath] # None
         /\ calls[i].arg.tree[otherPath] = None

\* The configurations whose key is there and can be used.
UsableKeys == {<<"plain", "">>, <<"locked", "pw">>}

\* C19: Git.CreateCommit is called, after the parent has been fetched, with
\* an unsigned commit when no key is configured, whatever the passphrase,
\* and with a signed one when the key is read and decrypted; with any other
\* key CreateCommit returns the signing error and never calls
\* Git.CreateCommit, Git.CreateRef or PullRequests.Create.
C19_SignedIffKeyGiven ==
    CreateCommitEntered =>
        LET key == options.GpgPrivateKey
            usable == <<key, options.GpgPassphrase>> \in UsableKeys
            parentFetched == \E j \in StepCalls("Repositories.GetCommit") : calls[j].res = "ok" IN
        /\ \A i \in StepCalls("Git.CreateCommit") :
             /\ key = "" \/ usable
             /\ calls[i].arg.signed = (key # "")
        /\ parentFetched /\ pc \notin {"cc_sign", "cc_createCommit"} =>
             IF key = "" \/ usable
             THEN Cardinality(StepCalls("Git.CreateCommit")) = 1
             ELSE /\ StepCalls("Git.CreateCommit") = {}
                  /\ StepCalls("Git.CreateRef") = {}
                  /\ StepCalls("PullRequests.Create") = {}
                  /\ pc = "done" /\ ret = Some(cc.err) /\ cc.err \in SigningErrors

\* C19 witness: no key but a passphrase, and an unsigned commit was created.
C19_Witness ==
    /\ CreateCommitEntered /\ options.GpgPrivateKey = "" /\ options.GpgPassphrase = "pw"
    /\ \E i \in StepCalls("Git.CreateCommit") : calls[i].res = "ok" /\ ~calls[i].arg.signed

\* C20: the working branch of a CreateCommit is the branch it was given,
\* or the default branch, fetched first, when it was given none: GetRef is
\* asked for the tip of that branch and the pull request is opened against
\* it; a branch that was given is never looked up.
C20_WorkingBranch ==
    CreateCommitEntered =>
        LET working == IF options.Branch = <<>> THEN <<"m">> ELSE options.Branch
            ref == <<"r", "e", "f", "s", "/", "h", "e", "a", "d", "s", "/">> \o working IN
        /\ options.Branch # <<>> => StepCalls("Repositories.Get") = {} /\ cc.b = options.Branch
        /\ options.Branch = <<>> /\ Len(calls) > cc.from =>
              calls[cc.from + 1].api = "Repositories.Get"
        /\ \A i \in StepCalls("Git.GetRef") :
              /\ calls[i].arg = ref
              /\ cc.b = working
        /\ \A i \in StepCalls("PullRequests.Create") :
              /\ calls[i].arg.base = working
              /\ calls[i].res = "ok" => remote.prs[cc.pr].base = working

\* C20 witness: a call without a branch opened its pull request against
\* the default branch.
C20_Witness ==
    /\ CreateCommitEntered /\ options.Branch = <<>>
    /\ Len(calls) > cc.from /\ calls[cc.from + 1].api = "Repositories.Get"
    /\ \E i \in StepCalls("PullRequests.Create") :
         calls[i].res = "ok" /\ calls[i].arg.base = <<"m">>

----------------------------------------------------------------------------
(* CreateCommit: what a failed call leaves behind, and the merge loop.     *)

\* C21: DeleteRef is called only after a merge call that succeeded; a
\* CreateCommit that has returned the error of create-pull-request or of
\* the exhausted merge loop has not called DeleteRef, and the temporary
\* branch still points at the commit it created; after the merge loop the
\* pull request is there too, open or closed.
C21_NoRollbackBeforeMerge ==
    /\ \A i \in CallsOf("Git.DeleteRef") :
         \E j \in Merges : j < i /\ calls[j].res = "ok"
    /\ CreateCommitEntered
         /\ cc.err \in MergeErrors \cup {"create pull request failed"} =>
            /\ Count("Git.DeleteRef") = 0
            /\ \E r \in remote.refs : r.name = cc.prBranchName /\ r.sha = cc.newCommit
            /\ cc.err \in MergeErrors =>
                  /\ cc.pr \in DOMAIN remote.prs
                  /\ remote.prs[cc.pr].head = cc.prBranchName
                  /\ remote.prs[cc.pr].state \in {"open", "closed"}

\* C21 witness: the merge loop gave up, the pull request was closed, and
\* the temporary branch is still there.
C21_Witness ==
    /\ CreateCommitEntered /\ pc = "done" /\ cc.err \in MergeErrors
    /\ remote.prs[cc.pr].state = "closed"
    /\ \E r \in remote.refs : r.name = cc.prBranchName /\ r.sha = cc.newCommit

\* The steps of the merge loop.
MergeLoop ==
    \/ CreateCommit_Merge
    \/ CreateCommit_Sleep
    \/ CreateCommit_DeleteRef
    \/ CreateCommit_ClosePullRequest

\* The provider configured with a key that needs no passphrase: what the
\* key is has no part in the merge loop.
InitFair == Init /\ config = [key |-> "plain", pass |-> ""]

\* Every call of the merge loop returns, and so does the sleep: a
\* CreateCommit that is in the loop takes its next step.
FairSpec == InitFair /\ [][Next]_vars /\ WF_vars(MergeLoop)

PullRequestCreated ==
    \E i \in StepCalls("PullRequests.Create") : calls[i].res = "ok"

\* C23: with N the MaxRetries in force (the one given when it is positive,
\* 3 otherwise), a CreateCommit never attempts more than N merges; one that
\* has returned after opening its pull request has attempted at least one
\* and has ended in exactly one of two ways: nil after a merge that
\* succeeded, or the merge error after N failed attempts and no success;
\* and every CreateCommit that reaches the merge loop returns.
C23_MergeLoopTerminates ==
    /\ [](CreateCommitEntered =>
            /\ options.MaxRetries \in 1..MaxBudget \cup {3}
            /\ Cardinality(Merges) <= options.MaxRetries
            /\ CreateCommitReturned /\ PullRequestCreated =>
                  /\ Cardinality(Merges) >= 1
                  /\ \/ /\ cc.err = ""
                        /\ Cardinality(Merges \ FailedMerges) = 1
                     \/ /\ cc.err \in MergeErrors
                        /\ Merges = FailedMerges
                        /\ Cardinality(FailedMerges) = options.MaxRetries)
    /\ (pc = "cc_merge") ~> (CreateCommitReturned /\ cc.err \in MergeErrors \cup {""})

\* C23 witness: no MaxRetries was given, and the call has returned the
\* merge error after three attempts.
C23_Witness ==
    /\ op = "direct" /\ pc = "done" /\ options.MaxRetries = 3 /\ MaxBudget < 3
    /\ Cardinality(FailedMerges) = 3 /\ cc.err \in MergeErrors

Sleeps == CallsOf("time.Sleep")

\* C24: every sleep directly follows a failed merge attempt and is directly
\* followed, if by anything, by the next attempt; a CreateCommit that has
\* returned nil after j failed attempts has slept j times, and one that has
\* returned the merge error after N attempts has slept N - 1 times.
C24_SleepBetweenAttempts ==
    /\ \A i \in Sleeps :
         /\ i > 1 /\ calls[i - 1].api = "PullRequests.Merge" /\ calls[i - 1].res # "ok"
         /\ i < Len(calls) => calls[i + 1].api = "PullRequests.Merge"
    /\ CreateCommitReturned /\ PullRequestCreated =>
         /\ cc.err = "" => Cardinality(Sleeps) = Cardinality(FailedMerges)
         /\ cc.err \in MergeErrors =>
               /\ Cardinality(Sleeps) = options.MaxRetries - 1
               /\ calls[Len(calls) - 1].api = "PullRequests.Merge"

\* C24 witness: one failed attempt, one sleep, and the second attempt merged.
C24_Witness ==
    /\ CreateCommitReturned /\ cc.err = ""
    /\ Cardinality(FailedMerges) = 1 /\ Cardinality(Sleeps) = 1
    /\ Cardinality(Merges) = 2

----------------------------------------------------------------------------
(* Two CreateCommit calls on the same branch at the same time.             *)

\* A caller at the entry of CreateCommit with no branch given: what it runs
\* with while the other caller is running.  The n-th caller's clock gives
\* its temporary branch the n-th name.
RaceCaller(n, key) ==
    [op |-> "direct", pc |-> "cc_getDefaultBranch",
     options |-> [Branch |-> <<>>, RepoOwner |-> Owner, RepoName |-> Repo,
                  GpgPassphrase |-> "", GpgPrivateKey |-> key,
                  Changes |-> <<BlobEntry(codeownersPath, <<"*", " ", DigitChars[n], "\n">>)>>,
                  BaseTreeOverride |-> None, MaxRetries |-> DefaultMaxRetries,
                  PullRequestSourceBranchName |-> <<>>],
     cc |-> Locals(<<>>, 0), h |-> ZeroHandler, calls |-> <<>>, ret |-> None, nops |-> n]

\* One caller runs, the other waits in px.
InitRace ==
    \E k1 \in {"", "plain"}, k2 \in {"", "plain"}, t \in InitialTrees :
        LET a == RaceCaller(1, k1) IN
        /\ op = a.op /\ pc = a.pc /\ options = a.options /\ cc = a.cc /\ h = a.h
        /\ calls = a.calls /\ ret = a.ret /\ nops = a.nops
        /\ px = RaceCaller(2, k2)
        /\ d = ZeroData /\ d0 = ZeroData
        /\ config = [key |-> "", pass |-> ""]
        /\ remote = [tips |-> [b \in {MainBranch, OtherBranch} |-> RootCommit(t)],
                     refs |-> {}, prs |-> <<>>]
        /\ cache = {} /\ plan = <<>> /\ py = <<>>

\* The scheduler lets the other caller run, between two calls of this one.
Yield ==
    /\ px.pc # "done"
    /\ px' = [op |-> op, pc |-> pc, options |-> options, cc |-> cc, h |-> h,
              calls |-> calls, ret |-> ret, nops |-> nops]
    /\ op' = px.op /\ pc' = px.pc /\ options' = px.options /\ cc' = px.cc /\ h' = px.h
    /\ calls' = px.calls /\ ret' = px.ret /\ nops' = px.nops
    /\ UNCHANGED <<d, d0, config, remote, cache, plan, py>>

NextRace ==
    \/ Yield
    \/ GetSHAForBranch_GetRef
    \/ CreateCommit_GetDefaultBranch
    \/ CreateCommit_CreateTree
    \/ CreateCommit_GetCommit
    \/ CreateCommit_ReadKey
    \/ CreateCommit_CreateCommit
    \/ CreateCommit_CreateRef
    \/ CreateCommit_CreatePullRequest
    \/ CreateCommit_Merge
    \/ CreateCommit_Sleep
    \/ CreateCommit_DeleteRef
    \/ CreateCommit_ClosePullRequest

SpecRace == InitRace /\ [][NextRace]_vars

\* A caller has returned nil, and a merge call of its own for the pull
\* request it opened succeeded, which is merged.
MergedBy(c) ==
    /\ c.cc.pr \in DOMAIN remote.prs
    /\ remote.prs[c.cc.pr].head = c.cc.prBranchName
    /\ remote.prs[c.cc.pr].state = "merged"
    /\ \E i \in 1..Len(c.calls) :
         /\ c.calls[i].api = "PullRequests.Merge"
         /\ c.calls[i].arg = c.cc.pr /\ c.calls[i].res = "ok"
    /\ \E i \in 1..Len(c.calls) :
         c.calls[i].api = "PullRequests.Create" /\ c.calls[i].res = "ok"

Running == [cc |-> cc, calls |-> calls]

\* C25: of two CreateCommit calls racing on the same branch, each one that
\* has returned nil has opened a pull request and has had a merge call for
\* it answered with success; when both have returned nil, two different
\* pull requests are merged.
C25_SuccessMeansMerged ==
    /\ pc = "done" /\ ret = Some("") => MergedBy(Running)
    /\ px.pc = "done" /\ px.ret = Some("") => MergedBy(px)
    /\ pc = "done" /\ ret = Some("") /\ px.pc = "done" /\ px.ret = Some("") =>
          /\ cc.pr # px.cc.pr
          /\ cc.prBranchName # px.cc.prBranchName

\* C25 witness: both callers have returned nil, the second after one failed
\* merge attempt.
C25_Witness ==
    /\ pc = "done" /\ ret = Some("") /\ px.pc = "done" /\ px.ret = Some("")
    /\ MergedBy(Running) /\ MergedBy(px)
    /\ Cardinality(FailedMerges) >= 1

----------------------------------------------------------------------------
(* What the handlers hand to CreateCommit.                                 *)

\* C26: the changes a create or update hands to CreateCommit are one entry:
\* a blob of mode 100644 at .github/CODEOWNERS holding Compile of the rules
\* of the resource, with no base tree override; the tree of the commit it
\* creates holds that content there and, at every other path, what the tip
\* of the branch held, and so does the branch after the merge.
C26_OnlyCodeownersWritten ==
    op \in {"create", "update"} /\ CreateCommitEntered =>
        LET content == Compile(expandRuleset(d0.rules)) IN
        /\ Len(options.Changes) = 1
        /\ options.Changes[1].Path = ".github/CODEOWNERS"
        /\ options.Changes[1].Type = "blob"
        /\ options.Changes[1].Mode = "100644"
        /\ options.Changes[1].Content = Some(content)
        /\ options.BaseTreeOverride = None
        /\ \A i \in StepCalls("Git.CreateCommit") :
             /\ calls[i].arg.tree[".github/CODEOWNERS"] = Some(content)
             /\ \A p \in Paths \ {".github/CODEOWNERS"} :
                  calls[i].arg.tree[p] = cc.s.tree[p]
        /\ ~NoMergeYet =>
             /\ remote.tips[cc.b].tree[".github/CODEOWNERS"] = Some(content)
             /\ \A p \in Paths \ {".github/CODEOWNERS"} :
                  remote.tips[cc.b].tree[p] = cc.s.tree[p]

\* C26 witness: an update has been merged, and README.md is still there.
C26_Witness ==
    /\ op = "update" /\ pc = "done" /\ ret = Some("")
    /\ d0.rules # <<>>
    /\ remote.tips[cc.b].tree["README.md"] = Some(<<"x">>)
    /\ remote.tips[cc.b].tree[".github/CODEOWNERS"] = Some(Compile(expandRuleset(d0.rules)))

\* C27: the tree of the commit a delete creates holds no .github/CODEOWNERS
\* and, at every other path, what the tip of the branch held, whether the
\* delete hands over a tombstone on the tip as base tree or every other
\* entry of the tip on no base tree; so does the branch after the merge.
C27_OnlyCodeownersRemoved ==
    op = "delete" /\ CreateCommitEntered =>
        /\ \/ /\ options.BaseTreeOverride = Some(h.s)
              /\ cc.s \in {h.s, [kind |-> "none"]}
              /\ Len(options.Changes) = 1
              /\ options.Changes[1].Path = ".github/CODEOWNERS"
              /\ options.Changes[1].Content = None
           \/ /\ options.BaseTreeOverride = Some([kind |-> "none"])
              /\ \A i \in 1..Len(options.Changes) :
                    options.Changes[i].Path # ".github/CODEOWNERS"
        /\ \A i \in StepCalls("Git.CreateCommit") :
             /\ calls[i].arg.tree[".github/CODEOWNERS"] = None
             /\ \A p \in Paths \ {".github/CODEOWNERS"} :
                  calls[i].arg.tree[p] = cc.s.tree[p]
             /\ cc.s.tree[".github/CODEOWNERS"] # None
        /\ ~NoMergeYet =>
             /\ remote.tips[cc.b].tree[".github/CODEOWNERS"] = None
             /\ \A p \in Paths \ {".github/CODEOWNERS"} :
                  remote.tips[cc.b].tree[p] = cc.s.tree[p]

\* C27 witness: a delete by tombstone has been merged; README.md is still
\* there and CODEOWNERS is not.
C27_Witness ==
    /\ op = "delete" /\ pc = "done" /\ ret = Some("")
    /\ options.Changes = <<Tombstone(codeownersPath)>>
    /\ cc.s.tree[".github/CODEOWNERS"] # None
    /\ remote.tips[cc.b].tree[".github/CODEOWNERS"] = None
    /\ remote.tips[cc.b].tree["README.md"] = Some(<<"x">>)

Reads == CallsOf("Repositories.GetContents")

\* C28: a create or update reads the file back exactly when CreateCommit
\* has returned nil: the read is its last call and follows a merge; until
\* then the resource is as it was when the handler was called, and when the
\* handler has returned without reading, it has returned the error of the
\* default branch lookup or of CreateCommit and the resource is still as it
\* was, the id of a create not set.
C28_ReadBackAfterSuccess ==
    op \in {"create", "update"} =>
        /\ Cardinality(Reads) <= 1
        /\ \A i \in Reads :
             /\ i = Len(calls) /\ pc = "done"
             /\ CreateCommitEntered /\ cc.err = "" /\ ~NoMergeYet
        /\ pc = "read" => CreateCommitEntered /\ cc.err = "" /\ ~NoMergeYet
        /\ Reads = {} => d = d0
        /\ pc = "done" /\ Reads = {} =>
             /\ ret # None /\ ret # Some("")
             /\ ret = Some(IF CreateCommitEntered THEN cc.err ELSE "get repository failed")
             /\ NoMergeYet \/ cc.err \in MergeErrors
             /\ op = "create" => d.id = <<>>

\* C28 witness: a create whose CreateCommit failed has returned the error,
\* nothing was read, and no id is set.
C28_Witness ==
    /\ op = "create" /\ pc = "done" /\ ret = Some("create ref failed")
    /\ Reads = {} /\ d = d0 /\ d.id = <<>>

\* C30: a create or update hands CreateCommit the owner of the resource as
\* owner and its name as name; every call of that CreateCommit and the read
\* that follows it go to that owner and name; the read asks for the branch
\* that was written, the default branch when the resource has none, and a
\* read that is answered returns the content that was written.
C30_WritesWhereItReads ==
    op \in {"create", "update"} /\ CreateCommitEntered =>
        LET file == expandFile(d0)
            branch == IF file.Branch = <<>> THEN <<"m">> ELSE file.Branch IN
        /\ options.RepoOwner = file.RepositoryOwner
        /\ options.RepoName = file.RepositoryName
        /\ d0.repository_owner # <<>> => options.RepoOwner = d0.repository_owner
        /\ d0.repository_name # <<>> => options.RepoName = d0.repository_name
        /\ options.Branch = branch /\ cc.b = branch
        /\ \A i \in 1..Len(calls) :
             calls[i].api # "time.Sleep" =>
                /\ calls[i].owner = file.RepositoryOwner
                /\ calls[i].repo = file.RepositoryName
        /\ \A i \in Reads :
             /\ (IF calls[i].arg = <<>> THEN <<"m">> ELSE calls[i].arg) = branch
             /\ calls[i].res = "ok" =>
                  /\ h.raw = Some(Compile(file.Ruleset))
                  /\ remote.tips[branch].tree[".github/CODEOWNERS"] = h.raw

\* C30 witness: an update on branch x of o/r has been merged and read back
\* from branch x of o/r.
C30_Witness ==
    /\ op = "update" /\ pc = "done" /\ ret = Some("")
    /\ options.RepoOwner = <<"o">> /\ options.RepoName = <<"r">>
    /\ options.Branch = <<"x">>
    /\ \E i \in Reads :
         /\ calls[i].owner = <<"o">> /\ calls[i].repo = <<"r">>
         /\ calls[i].arg = <<"x">> /\ calls[i].res = "ok"

=============================================================================
